---- MODULE Spec2Model ----
(***************************************************************************)
(* BinaryBrain: the sparse connectivity generator of SparseLayer, the      *)
(* Sequential container, the composite layers BinaryModulation,            *)
(* SparseLutN and StochasticLut, the ReLU layer and the batch loop of      *)
(* NeuralNet, as state machines.                                           *)
(*                                                                         *)
(* The specifications share the module's variables:                        *)
(*   SpecSparse, FairSpecGauss    SparseLayer::InitializeNodeInput          *)
(*   SpecSeq                      Sequential                               *)
(*   SpecComp                     BinaryModulation, SparseLutN,            *)
(*                                StochasticLut                            *)
(*   SpecMod                      BinaryModulation Forward / Backward      *)
(*   SpecCmd                      SendCommand of the containers and ReLU   *)
(*   SpecCache                    Forward / Backward of ReLU, SparseLutN   *)
(*   SpecShape                    SetInputShape of the composites          *)
(*   SpecSer                      Save / Load of the composites            *)
(*   SpecNode                     ForwardNode of SparseLutN, StochasticLut *)
(*   SpecReLU                     ReLU Forward / Backward on values        *)
(*   SpecSwitch                   commands between Forward and Backward    *)
(*   SpecCreate                   Create of SparseLutN and StochasticLut   *)
(*   SpecNet, FairSpecNet         NeuralNet::RunCalculation                *)
(* Each one holds the other components' variables at their initial value.  *)
(***************************************************************************)
EXTENDS Integers, Sequences, FiniteSets, TLC

VARIABLES
    \* ---- SparseLayer::InitializeNodeInput ----
    input_shape,     \* this->GetInputShape()
    output_shape,    \* this->GetOutputShape()
    fanin,           \* GetNodeInputSize(node), the template parameter N
    argv,            \* SplitString(connection)
    seed,            \* the seed argument
    status,          \* "idle" | "init" | "gauss" | "done" | "assert" | "exhausted" | "undefined"
    table,           \* the connection table: output node -> sequence of input nodes
    setCalls,        \* number of SetNodeInput calls of the current run
    gauss,           \* the gauss strategy's loop state
    prevRun,         \* the previous completed run (seed and table), or NoRun
    \* ---- Sequential ----
    m_layers,        \* std::vector<std::shared_ptr<Layer>>
    seq_calls,       \* the child calls of the last Sequential operation, in order
    seq_result,      \* the value the last Sequential operation returned
    seq_op,          \* the last Sequential operation and its arguments
    \* ---- composites ----
    m_bn_enable,     \* StochasticLut::m_bn_enable
    m_memory_saving, \* SparseLutN::m_memory_saving
    m_training,      \* BinaryModulation::m_training
    comp_op,         \* the last composite operation: [layer, op, subs]
    \* ---- BinaryModulation ----
    m_training_create,   \* RealToBinary create_t of the training mode
    m_inference_create,  \* RealToBinary create_t of the inference mode
    m_real2bin,      \* the expander's configuration
    m_bin2real,      \* the reducer's configuration
    \* ---- ReLU ----
    m_binary_mode,   \* ReLU::m_binary_mode
    m_host_only,     \* Binarize::m_host_only
    m_x_buf,         \* the input saved for Backward
    m_y_buf,         \* the output saved for Backward
    \* ---- sub-layers of the composites ----
    sub_x_buf,       \* SparseLutN: the FrameBufferX of m_lut, m_batch_norm, m_activation
    sub_shape,       \* sub-layer -> [input, output] shape set by its SetInputShape
    sub_calls,       \* the sub-layer calls of the last operation, in order
    returned,        \* what the last Forward, Backward or SetInputShape returned
    fwd_hist,        \* the inputs of the Forward calls a Backward can refer to
    archive,         \* what the last Save wrote: [class, format, entries]
    T,               \* DataType<T>::type of the ReLU<T> instance: "fp32" | "fp64"
    fwd_mode,        \* the latest Forward a Backward has not followed: its train flag
                     \* and the mode flag of the layer when it ran
    net              \* NeuralNet::RunCalculation: its arguments, its locals, the
                     \* calls of the current batch and how often each sample was copied

sparseVars == <<input_shape, output_shape, fanin, argv, seed, status, table,
                setCalls, gauss, prevRun>>
seqVars    == <<m_layers, seq_calls, seq_result, seq_op>>
compVars   == <<m_bn_enable, m_memory_saving, m_training, comp_op>>
modVars    == <<m_training_create, m_inference_create, m_real2bin, m_bin2real>>
reluVars   == <<m_binary_mode, m_host_only, m_x_buf, m_y_buf>>
extVars    == <<modVars, reluVars, sub_x_buf, sub_shape, sub_calls, returned, fwd_hist,
               archive, T, fwd_mode, net>>
vars       == <<sparseVars, seqVars, compVars, extVars>>

-----------------------------------------------------------------------------
(* Values at construction *)

\* BinaryModulation::create_t with its default member initialisers, as the
\* RealToBinary create_t of one mode
DefaultCreate == [modulation_size |-> 1, value_generator |-> "null", framewise |-> TRUE,
                  input_range_lo |-> 0, input_range_hi |-> 1]

\* FrameBuffer(): the empty buffer
EmptyBuffer == [type |-> "none", frames |-> 0, shape |-> <<>>, id |-> 0]

\* no Forward yet: last_train is the input of the training-mode Forward that
\* no Backward has consumed yet, last_fwd the input of the latest Forward
NoHistory == [last_train |-> EmptyBuffer, last_fwd |-> EmptyBuffer]

NoForward == [train |-> FALSE, mode |-> FALSE]

\* a NeuralNet on which RunCalculation has not been called
NoNet == [pc |-> "idle", layers |-> 0, x_size |-> 0, max_batch_size |-> 0,
          accFunc |-> FALSE, lossFunc |-> FALSE, train |-> FALSE,
          x_index |-> 0, batch_size |-> 0, m_batch_size |-> 0,
          calls |-> <<>>, copied |-> <<>>]

NoArchive == [class |-> "", format |-> "", entries |-> <<>>]
NoSubBuffers == [m_lut |-> EmptyBuffer, m_batch_norm |-> EmptyBuffer,
                 m_activation |-> EmptyBuffer]

-----------------------------------------------------------------------------
(* Bounds of the model *)

MaxIn1      == 4   \* 1-D input shapes [1] .. [MaxIn1]
MaxOut1     == 3   \* 1-D output shapes [1] .. [MaxOut1]
Max3        == 2   \* 3-D shapes [w, h, c] with every extent in 1 .. Max3
MaxN        == 2   \* fan-in N in 1 .. MaxN
MaxSeed     == 1   \* seeds 0 .. MaxSeed
GaussMaxIn  == 3   \* gauss: input node count at most GaussMaxIn
GaussMaxOut == 2   \* gauss: output node count at most GaussMaxOut
MaxLayers   == 3   \* Sequential: at most MaxLayers children
MaxLayerId  == 3   \* the layer objects that can be added: 1 .. MaxLayerId
MaxBuf      == 2   \* the buffers handed to Forward and Backward: 1 .. MaxBuf
MaxMod      == 2   \* BinaryModulation: modulation sizes 1 .. MaxMod
MaxChildren == 2   \* SendCommand: a Sequential of MaxChildren children
MaxExtent   == 2   \* SetInputShape: shapes of extents 1 .. MaxExtent
MaxRuns     == 2   \* SetInputShape: calls made on one composite

-----------------------------------------------------------------------------
(* Shapes and indices (bb/DataType.h, not among the sources) *)

RECURSIVE GetShapeSize(_)
GetShapeSize(shape) ==
    IF shape = <<>> THEN 1 ELSE Head(shape) * GetShapeSize(Tail(shape))

\* flat index of an index vector: axis 0 is the fastest running one
RECURSIVE GetShapeIndex(_, _)
GetShapeIndex(indices, shape) ==
    IF shape = <<>> THEN 0
    ELSE Head(indices) + Head(shape) * GetShapeIndex(Tail(indices), Tail(shape))

\* the index vector of a flat index
RECURSIVE GetShapeIndices(_, _)
GetShapeIndices(index, shape) ==
    IF shape = <<>> THEN <<>>
    ELSE <<index % Head(shape)>> \o GetShapeIndices(index \div Head(shape), Tail(shape))

Unset == 0 - 1

Shapes1(max) == { <<w>> : w \in 1..max }
Shapes3      == { <<w, h, c>> : w \in 1..Max3, h \in 1..Max3, c \in 1..Max3 }
InputShapes  == Shapes1(MaxIn1) \cup Shapes3
OutputShapes == Shapes1(MaxOut1) \cup Shapes3
Seeds        == 0..MaxSeed

-----------------------------------------------------------------------------
(* std::mt19937_64 and std::shuffle: a deterministic generator.  The engine *)
(* is a small linear congruential one; what matters is that the stream is  *)
(* a function of the seed alone.                                           *)

MtSeed(s)  == s % 31
MtNext(st) == (st * 7 + 5) % 31
\* the value of the k-th call mt() of an engine in state st (k >= 1)
RECURSIVE MtNth(_, _)
MtNth(st, k) == IF k <= 1 THEN MtNext(st) ELSE MtNth(MtNext(st), k - 1)

Swap(s, i, j) == [s EXCEPT ![i] = s[j], ![j] = s[i]]

\* std::shuffle(first, last, g): for i = n-1 .. 1 swap s[i] with s[uniform(0, i)];
\* returns the shuffled sequence and the engine's state afterwards
RECURSIVE Shuffle(_, _, _)
Shuffle(s, i, st) ==
    IF i <= 1 THEN [seq |-> s, mt |-> st]
    ELSE LET st1 == MtNext(st)
             j   == (st1 % i) + 1
         IN  Shuffle(Swap(s, i, j), i - 1, st1)

-----------------------------------------------------------------------------
(* ShuffleSet (bb/ShuffleSet.h, not among the sources): one shuffle of the  *)
(* indices 0 .. size-1; GetRandomSet(n) takes the next n entries, and       *)
(* re-shuffles the entries handed out by earlier calls when it runs out.    *)
(* Asking for more entries than there are distinct ones is the fatal       *)
(* configuration error "fan-in larger than the available inputs".          *)

ShuffleSet_Setup(size, s) ==
    LET sh == Shuffle([i \in 1..size |-> i - 1], size, MtSeed(s))
    IN  [heap |-> sh.seq, reserve |-> <<>>, mt |-> sh.mt]

\* r = [ss, set, ok]: take n - Len(r.set) further entries
RECURSIVE ShuffleSet_Take(_, _)
ShuffleSet_Take(r, n) ==
    IF ~r.ok \/ Len(r.set) >= n THEN r
    ELSE LET ss == r.ss
             refill == IF ss.heap # <<>> THEN ss
                       ELSE LET sh == Shuffle(ss.reserve, Len(ss.reserve), ss.mt)
                            IN  [heap |-> sh.seq, reserve |-> <<>>, mt |-> sh.mt]
         IN  IF refill.heap = <<>>
             THEN [r EXCEPT !.ok = FALSE]
             ELSE ShuffleSet_Take(
                    [ss  |-> [refill EXCEPT !.heap = Tail(refill.heap)],
                     set |-> Append(r.set, Head(refill.heap)),
                     ok  |-> TRUE], n)

ShuffleSet_GetRandomSet(ss, n) ==
    LET r == ShuffleSet_Take([ss |-> ss, set |-> <<>>, ok |-> TRUE], n)
    IN  [r EXCEPT !.ss.reserve = r.ss.reserve \o r.set]

\* the sets of `count` successive GetRandomSet(n) calls on ss: [sets, ok]
RECURSIVE ShuffleSet_Sets(_, _, _)
ShuffleSet_Sets(ss, count, n) ==
    IF count = 0 THEN [sets |-> <<>>, ok |-> TRUE]
    ELSE LET r == ShuffleSet_GetRandomSet(ss, n)
         IN  IF ~r.ok THEN [sets |-> <<>>, ok |-> FALSE]
             ELSE LET rest == ShuffleSet_Sets(r.ss, count - 1, n)
                  IN  [sets |-> <<r.set>> \o rest.sets, ok |-> rest.ok]

-----------------------------------------------------------------------------
(* SparseLayer::InitializeNodeInput: the strategies.  A strategy returns    *)
(* [status, table, calls]: how the call ended, the connection table it     *)
(* leaves and the number of SetNodeInput calls it made.                    *)

Nodes(shape) == 0..(GetShapeSize(shape) - 1)

\* the table before any SetNodeInput call
EmptyTable(out, n) == [o \in Nodes(out) |-> [i \in 1..n |-> Unset]]

Failed(kind, old) == [status |-> kind, table |-> old, calls |-> 0]
Filled(tbl, n)    == [status |-> "done", table |-> tbl,
                      calls |-> Cardinality(DOMAIN tbl) * n]

KnownStrategies == {"pointwise", "depthwise", "gauss", "serial", "random"}

\* SelectStrategy with the empty strategy string not taken as random
SelectStrategy_NoDefault(av) ==
    IF Len(av) > 0 /\ av[1] = "pointwise" THEN "pointwise"
    ELSE IF Len(av) > 0 /\ av[1] = "depthwise" THEN "depthwise"
    ELSE IF Len(av) > 0 /\ av[1] = "gauss" THEN "gauss"
    ELSE IF Len(av) > 0 /\ av[1] = "serial" THEN "serial"
    ELSE IF Len(av) > 0 /\ av[1] = "random" THEN "random"
    ELSE "unknown"

\* the chain of if-statements on argv
SelectStrategy(av) ==
    IF Len(av) > 0 /\ av[1] = "pointwise" THEN "pointwise"
    ELSE IF Len(av) > 0 /\ av[1] = "depthwise" THEN "depthwise"
    ELSE IF Len(av) > 0 /\ av[1] = "gauss" THEN "gauss"
    ELSE IF Len(av) > 0 /\ av[1] = "serial" THEN "serial"
    ELSE IF Len(av) = 0 \/ av[1] = "random" THEN "random"
    ELSE "unknown"

\* PointwiseGuard without BB_ASSERT(input_shape[1] == output_shape[1])
PointwiseGuard_NoAxis1(in, out) ==
    /\ Len(in) = 3
    /\ Len(out) = 3
    /\ in[1] = out[1]

\* the four BB_ASSERTs of pointwise
PointwiseGuard(in, out) ==
    /\ Len(in) = 3
    /\ Len(out) = 3
    /\ in[1] = out[1]
    /\ in[2] = out[2]

\* the three BB_ASSERTs of depthwise
DepthwiseGuard(in, out) ==
    /\ Len(in) = 3
    /\ Len(out) = 3
    /\ in[3] = out[3]

\* InitializePointwise with every input taken from column (0, 0)
InitializePointwise_FirstColumn(in, out, n, sd, old) ==
    IF ~PointwiseGuard(in, out) THEN Failed("assert", old)
    ELSE LET ColSets(x, y) ==
                 ShuffleSet_Sets(
                     ShuffleSet_Setup(in[3], MtNth(MtSeed(sd), y * out[1] + x + 1)),
                     out[3], n)
             Row(o) == LET xyc == GetShapeIndices(o, out)
                           rs  == ColSets(xyc[1], xyc[2]).sets[xyc[3] + 1]
                       IN  [i \in 1..n |-> GetShapeIndex(<<0, 0, rs[i]>>, in)]
         IN  IF ~ColSets(0, 0).ok THEN Failed("exhausted", old)
             ELSE Filled([o \in Nodes(out) |-> Row(o)], n)

InitializePointwise(in, out, n, sd, old) ==
    IF ~PointwiseGuard(in, out) THEN Failed("assert", old)
    ELSE LET \* column (x, y) is the (y * W + x + 1)-th one, seeded by that call of mt()
             ColSets(x, y) ==
                 ShuffleSet_Sets(
                     ShuffleSet_Setup(in[3], MtNth(MtSeed(sd), y * out[1] + x + 1)),
                     out[3], n)
             Row(o) == LET xyc == GetShapeIndices(o, out)
                           rs  == ColSets(xyc[1], xyc[2]).sets[xyc[3] + 1]
                       IN  [i \in 1..n |->
                              GetShapeIndex(<<xyc[1], xyc[2], rs[i]>>, in)]
         IN  IF ~ColSets(0, 0).ok THEN Failed("exhausted", old)
             ELSE Filled([o \in Nodes(out) |-> Row(o)], n)

\* InitializeDepthwise decoding the position with x and y exchanged
InitializeDepthwise_Transposed(in, out, n, sd, old) ==
    IF ~DepthwiseGuard(in, out) THEN Failed("assert", old)
    ELSE LET ChSets(c) ==
                 ShuffleSet_Sets(
                     ShuffleSet_Setup(in[1] * in[2], MtNth(MtSeed(sd), c + 1)),
                     out[1] * out[2], n)
             Input(xyc, p) == GetShapeIndex(<<p \div in[1], p % in[1], xyc[3]>>, in)
             Row(o) == LET xyc == GetShapeIndices(o, out)
                           rs  == ChSets(xyc[3]).sets[xyc[2] * out[1] + xyc[1] + 1]
                       IN  [i \in 1..n |-> Input(xyc, rs[i])]
             tbl == [o \in Nodes(out) |-> Row(o)]
             RangeOk == \A o \in Nodes(out) :
                           /\ GetShapeIndex(GetShapeIndices(o, out), out) \in Nodes(out)
                           /\ \A i \in 1..n : tbl[o][i] \in Nodes(in)
         IN  IF ~ChSets(0).ok THEN Failed("exhausted", old)
             ELSE IF ~RangeOk THEN Failed("assert", old)
             ELSE Filled(tbl, n)

InitializeDepthwise(in, out, n, sd, old) ==
    IF ~DepthwiseGuard(in, out) THEN Failed("assert", old)
    ELSE LET \* channel c is seeded by the (c + 1)-th call of mt(); output position
             \* (x, y) takes that channel's (y * W + x + 1)-th set
             ChSets(c) ==
                 ShuffleSet_Sets(
                     ShuffleSet_Setup(in[1] * in[2], MtNth(MtSeed(sd), c + 1)),
                     out[1] * out[2], n)
             Input(xyc, p) == GetShapeIndex(<<p % in[1], p \div in[1], xyc[3]>>, in)
             Row(o) == LET xyc == GetShapeIndices(o, out)
                           rs  == ChSets(xyc[3]).sets[xyc[2] * out[1] + xyc[1] + 1]
                       IN  [i \in 1..n |-> Input(xyc, rs[i])]
             tbl == [o \in Nodes(out) |-> Row(o)]
             RangeOk == \A o \in Nodes(out) :
                           /\ GetShapeIndex(GetShapeIndices(o, out), out) \in Nodes(out)
                           /\ \A i \in 1..n : tbl[o][i] \in Nodes(in)
         IN  IF ~ChSets(0).ok THEN Failed("exhausted", old)
             ELSE IF ~RangeOk THEN Failed("assert", old)
             ELSE Filled(tbl, n)

\* the two loops of serial: input_node runs on across the output nodes
RECURSIVE SerialLoop(_, _, _, _, _, _)
SerialLoop(output_node, i, input_node, tbl, in_size, n) ==
    IF output_node \notin DOMAIN tbl THEN tbl
    ELSE IF i >= n THEN SerialLoop(output_node + 1, 0, input_node, tbl, in_size, n)
    ELSE SerialLoop(output_node, i + 1, input_node + 1,
                    [tbl EXCEPT ![output_node][i + 1] = input_node % in_size],
                    in_size, n)

\* InitializeSerial with input_node starting again at 0 for every output node
InitializeSerial_PerNode(in, out, n, sd, old) ==
    Filled([o \in DOMAIN old |-> [i \in 1..n |-> (i - 1) % GetShapeSize(in)]], n)

InitializeSerial(in, out, n, sd, old) ==
    Filled(SerialLoop(0, 0, 0, old, GetShapeSize(in), n), n)

\* InitializeRandom with the ShuffleSet left at its default seed
InitializeRandom_DefaultSeed(in, out, n, sd, old) ==
    LET r == ShuffleSet_Sets(ShuffleSet_Setup(GetShapeSize(in), 1),
                             GetShapeSize(out), n)
    IN  IF ~r.ok THEN Failed("exhausted", old)
        ELSE Filled([o \in Nodes(out) |-> r.sets[o + 1]], n)

InitializeRandom(in, out, n, sd, old) ==
    LET r == ShuffleSet_Sets(ShuffleSet_Setup(GetShapeSize(in), sd),
                             GetShapeSize(out), n)
    IN  IF ~r.ok THEN Failed("exhausted", old)
        ELSE Filled([o \in Nodes(out) |-> r.sets[o + 1]], n)

\* "unknown connection rule" and BB_ASSERT(0)
InitializeUnknown(in, out, n, sd, old) == Failed("assert", old)

-----------------------------------------------------------------------------
(* The gauss strategy.  Doubles are rationals <<num, den>>; den = 0 stands  *)
(* for a value that is not finite (x / 0).                                 *)

\* step[i] = (input_shape[i] - 1) / (output_shape[i] - 1)
GaussStep(in, out, j)  == <<in[j] - 1, out[j] - 1>>
\* sigma[i] = input_shape[i] / output_shape[i]
GaussSigma(in, out, j) == <<in[j], out[j]>>

\* input_offset[i] = output_index[i] * step[i]; anything times a non-finite
\* value is not finite (0 * inf = NaN)
GaussOffset(in, out, output_index, j) ==
    LET st == GaussStep(in, out, j)
    IN  <<output_index[j] * st[1], st[2]>>

\* input_position[j] = input_offset[j] + norm_dist(mt) * sigma[j]
GaussPosition(offset, z, sigma) ==
    IF offset[2] = 0 \/ z[2] = 0 \/ sigma[2] = 0 THEN <<0, 0>>
    ELSE <<offset[1] * z[2] * sigma[2] + z[1] * sigma[1] * offset[2],
           offset[2] * z[2] * sigma[2]>>

\* round(): to the nearest integer, halves away from zero (den > 0)
Round(q) ==
    IF q[1] >= 0 THEN (2 * q[1] + q[2]) \div (2 * q[2])
    ELSE 0 - ((2 * (0 - q[1]) + q[2]) \div (2 * q[2]))

Clamp(v, lo, hi) == IF v < lo THEN lo ELSE IF v > hi THEN hi ELSE v

\* RegurerlizeIndices (bb/DataType.h, not among the sources): snap every
\* coordinate to the nearest valid index.  A position that is not a number has
\* no nearest index: the conversion yields the same arbitrary index nan[j]
\* on every call of one run.
RegurerlizeIndices(position, shape, nan) ==
    [j \in 1..Len(shape) |->
        IF position[j][2] = 0 THEN nan[j]
        ELSE Clamp(Round(position[j]), 0, shape[j] - 1)]

\* GetNextIndices (bb/DataType.h, not among the sources): the odometer step,
\* axis 0 first; [indices, more], more = FALSE after the last index vector
RECURSIVE GetNextIndices(_, _)
GetNextIndices(indices, shape) ==
    IF indices = <<>> THEN [indices |-> <<>>, more |-> FALSE]
    ELSE IF Head(indices) + 1 < Head(shape)
         THEN [indices |-> <<Head(indices) + 1>> \o Tail(indices), more |-> TRUE]
         ELSE LET r == GetNextIndices(Tail(indices), Tail(shape))
              IN  [indices |-> <<0>> \o r.indices, more |-> r.more]

\* The samples norm_dist(mt) of the model on axis j: the normal distribution
\* has every real in its support; these are the values z with z * sigma[j] a
\* whole displacement d, |d| < input_shape[j], which reach every input index.
NormSamples(in, out, j) == { <<d * out[j], in[j]>> : d \in (1 - in[j])..(in[j] - 1) }

SampleVectors(in, out) ==
    { zs \in [1..Len(in) -> UNION { NormSamples(in, out, j) : j \in 1..Len(in) }] :
        \A j \in 1..Len(in) : zs[j] \in NormSamples(in, out, j) }

\* the input node one vector of samples selects for the current output index
GaussInputNode(in, out, g, zs) ==
    LET position == [j \in 1..Len(in) |->
                        GaussPosition(GaussOffset(in, out, g.output_index, j),
                                      zs[j], GaussSigma(in, out, j))]
    IN  GetShapeIndex(RegurerlizeIndices(position, in, g.nan), in)

NoGauss == [output_index |-> <<>>, i |-> 0, s |-> {}, nan |-> <<>>, visited |-> <<>>,
            odd |-> FALSE]
NoRun   == [seed |-> Unset, table |-> <<>>]

-----------------------------------------------------------------------------
(* SparseLayer::InitializeNodeInput as actions *)

Connections == { <<>>, <<"pointwise">>, <<"depthwise">>, <<"gauss">>, <<"serial">>,
                 <<"random">>, <<"bogus">>, <<"bogus", "random">> }

SparseInit ==
    /\ input_shape \in InputShapes
    /\ output_shape \in OutputShapes
    /\ fanin \in 1..MaxN
    /\ argv \in Connections
    /\ seed \in Seeds
    /\ SelectStrategy(argv) = "gauss" =>
          /\ GetShapeSize(input_shape) <= GaussMaxIn
          /\ GetShapeSize(output_shape) <= GaussMaxOut
          /\ seed = 0   \* the samples of the model are not drawn from the seed
    /\ status = "init"
    /\ table = EmptyTable(output_shape, fanin)
    /\ setCalls = 0
    /\ gauss = NoGauss
    /\ prevRun = NoRun
    /\ m_layers = <<>> /\ seq_calls = <<>> /\ seq_result = <<>> /\ seq_op = <<>>
    /\ m_bn_enable = TRUE /\ m_memory_saving = TRUE /\ m_training = TRUE
    /\ comp_op = <<>>
    /\ m_training_create = DefaultCreate /\ m_inference_create = DefaultCreate
    /\ m_real2bin = DefaultCreate /\ m_bin2real = [modulation_size |-> 1]
    /\ m_binary_mode = FALSE /\ m_host_only = FALSE
    /\ m_x_buf = EmptyBuffer /\ m_y_buf = EmptyBuffer
    /\ sub_x_buf = NoSubBuffers /\ sub_shape = <<>> /\ sub_calls = <<>> /\ returned = <<>> /\ fwd_hist = NoHistory /\ archive = NoArchive /\ fwd_mode = NoForward /\ net = NoNet /\ T = "fp32"

\* a strategy that runs to its end without sampling
Finish(r) ==
    /\ status' = r.status
    /\ table' = r.table
    /\ setCalls' = r.calls
    /\ UNCHANGED <<input_shape, output_shape, fanin, argv, seed, gauss, prevRun>>
    /\ UNCHANGED <<seqVars, compVars, extVars>>

Pointwise ==
    /\ status = "init"
    /\ SelectStrategy(argv) = "pointwise"
    /\ Finish(InitializePointwise(input_shape, output_shape, fanin, seed, table))

Depthwise ==
    /\ status = "init"
    /\ SelectStrategy(argv) = "depthwise"
    /\ Finish(InitializeDepthwise(input_shape, output_shape, fanin, seed, table))

Serial ==
    /\ status = "init"
    /\ SelectStrategy(argv) = "serial"
    /\ Finish(InitializeSerial(input_shape, output_shape, fanin, seed, table))

Random ==
    /\ status = "init"
    /\ SelectStrategy(argv) = "random"
    /\ Finish(InitializeRandom(input_shape, output_shape, fanin, seed, table))

UnknownRule ==
    /\ status = "init"
    /\ SelectStrategy(argv) = "unknown"
    /\ Finish(InitializeUnknown(input_shape, output_shape, fanin, seed, table))

\* gauss reads output_shape[i] for every axis i of the input shape and builds
\* output indices of the input's rank: with shapes of different rank it reads
\* past the end of a vector
GaussRankMismatch ==
    /\ status = "init"
    /\ SelectStrategy(argv) = "gauss"
    /\ Len(input_shape) # Len(output_shape)
    /\ status' = "undefined"
    /\ UNCHANGED <<input_shape, output_shape, fanin, argv, seed, table, setCalls,
                   gauss, prevRun, seqVars, compVars, extVars>>

\* the set-up before the do-loop and the entry into its first pass
GaussBegin ==
    /\ status = "init"
    /\ SelectStrategy(argv) = "gauss"
    /\ Len(input_shape) = Len(output_shape)
    /\ \E nan \in [1..Len(input_shape) -> 0..(GaussMaxIn + 1)] :
          /\ \A j \in 1..Len(input_shape) :
                /\ nan[j] < input_shape[j]
                /\ output_shape[j] # 1 => nan[j] = 0
          /\ gauss' = [output_index |-> [j \in 1..Len(input_shape) |-> 0],
                       i |-> 0, s |-> {}, nan |-> nan,
                       visited |-> [o \in Nodes(output_shape) |->
                                       IF o = 0 THEN 1 ELSE 0],
                       odd |-> FALSE]
    /\ status' = "gauss"
    /\ UNCHANGED <<input_shape, output_shape, fanin, argv, seed, table, setCalls,
                   prevRun, seqVars, compVars, extVars>>

\* one pass of for ( ; ; ) that finds a new input node: SetNodeInput, insert,
\* break, and on to the next slot, the next output index or the end
GaussAccept ==
    /\ status = "gauss"
    /\ \E zs \in SampleVectors(input_shape, output_shape) :
          LET input_node  == GaussInputNode(input_shape, output_shape, gauss, zs)
              output_node == GetShapeIndex(gauss.output_index, output_shape)
              nx          == GetNextIndices(gauss.output_index, output_shape)
              next_node   == GetShapeIndex(nx.indices, output_shape)
          IN  /\ input_node \notin gauss.s
              /\ table' = [table EXCEPT ![output_node][gauss.i + 1] = input_node]
              /\ setCalls' = setCalls + 1
              /\ IF gauss.i + 1 < fanin
                 THEN /\ gauss' = [gauss EXCEPT !.i = gauss.i + 1,
                                                !.s = gauss.s \cup {input_node},
                                                !.odd = FALSE]
                      /\ status' = "gauss"
                 ELSE IF nx.more
                 THEN /\ gauss' = [gauss EXCEPT !.output_index = nx.indices,
                                                !.i = 0, !.s = {},
                                                !.visited[next_node] = @ + 1,
                                                !.odd = FALSE]
                      /\ status' = "gauss"
                 ELSE /\ gauss' = [gauss EXCEPT !.i = gauss.i + 1,
                                                !.s = gauss.s \cup {input_node},
                                                !.odd = FALSE]
                      /\ status' = "done"
    /\ UNCHANGED <<input_shape, output_shape, fanin, argv, seed, prevRun, seqVars, compVars, extVars>>

\* one pass of for ( ; ; ) that hits an input node already in s: the loop goes
\* round again; gauss.odd is the parity of these passes for the current slot
GaussRetry ==
    /\ status = "gauss"
    /\ \E zs \in SampleVectors(input_shape, output_shape) :
          GaussInputNode(input_shape, output_shape, gauss, zs) \in gauss.s
    /\ gauss' = [gauss EXCEPT !.odd = ~gauss.odd]
    /\ UNCHANGED <<input_shape, output_shape, fanin, argv, seed, status, table,
                   setCalls, prevRun, seqVars, compVars, extVars>>

\* a second call of InitializeNodeInput on the same layer, with any seed
\* (followed for the random strategy, whose repeatability it shows)
Rerun ==
    /\ status = "done"
    /\ SelectStrategy(argv) = "random"
    /\ prevRun' = [seed |-> seed, table |-> table]
    /\ seed' \in Seeds
    /\ status' = "init"
    /\ setCalls' = 0
    /\ UNCHANGED <<input_shape, output_shape, fanin, argv, table, gauss, seqVars, compVars, extVars>>

SparseNext ==
    \/ Pointwise
    \/ Depthwise
    \/ Serial
    \/ Random
    \/ UnknownRule
    \/ GaussRankMismatch
    \/ GaussBegin
    \/ GaussAccept
    \/ GaussRetry
    \/ Rerun

SpecSparse == SparseInit /\ [][SparseNext]_vars

\* InitializeNodeInput with the gauss strategy alone
GaussInit ==
    /\ input_shape \in InputShapes
    /\ output_shape \in OutputShapes
    /\ GetShapeSize(input_shape) <= GaussMaxIn
    /\ GetShapeSize(output_shape) <= GaussMaxOut
    /\ fanin \in 1..MaxN
    /\ argv = <<"gauss">>
    /\ seed = 0
    /\ status = "init"
    /\ table = EmptyTable(output_shape, fanin)
    /\ setCalls = 0
    /\ gauss = NoGauss
    /\ prevRun = NoRun
    /\ m_layers = <<>> /\ seq_calls = <<>> /\ seq_result = <<>> /\ seq_op = <<>>
    /\ m_bn_enable = TRUE /\ m_memory_saving = TRUE /\ m_training = TRUE
    /\ comp_op = <<>>
    /\ m_training_create = DefaultCreate /\ m_inference_create = DefaultCreate
    /\ m_real2bin = DefaultCreate /\ m_bin2real = [modulation_size |-> 1]
    /\ m_binary_mode = FALSE /\ m_host_only = FALSE
    /\ m_x_buf = EmptyBuffer /\ m_y_buf = EmptyBuffer
    /\ sub_x_buf = NoSubBuffers /\ sub_shape = <<>> /\ sub_calls = <<>> /\ returned = <<>> /\ fwd_hist = NoHistory /\ archive = NoArchive /\ fwd_mode = NoForward /\ net = NoNet /\ T = "fp32"

GaussNext ==
    \/ GaussRankMismatch
    \/ GaussBegin
    \/ GaussAccept
    \/ GaussRetry

SpecGauss == GaussInit /\ [][GaussNext]_vars

\* The running call keeps taking steps, and sampling is fair: while some sample
\* selects a new input node, a pass that draws such a sample is eventually taken
FairSpecGauss ==
    GaussInit /\ [][GaussNext]_vars /\ WF_vars(GaussNext) /\ WF_vars(GaussAccept)

-----------------------------------------------------------------------------
(* Properties of InitializeNodeInput *)

InSize  == GetShapeSize(input_shape)
OutSize == GetShapeSize(output_shape)
Strategy == SelectStrategy(argv)

RowDistinct(row) ==
    \A i, j \in DOMAIN row : (i # j /\ row[i] # Unset) => row[i] # row[j]

\* C1: once InitializeNodeInput has completed, every output node's input list
\* has exactly N entries, every entry is an input node index in
\* [0, input_node_count), and the entries of one output node are pairwise
\* distinct.
C1_TableValid ==
    status = "done" =>
        \A o \in Nodes(output_shape) :
            /\ Len(table[o]) = fanin
            /\ \A i \in 1..fanin : table[o][i] \in Nodes(input_shape)
            /\ RowDistinct(table[o])

\* C2: with strategy serial, slot i of output node o holds input index
\* (o * N + i) mod input_node_count, whatever the seed; N = 2, input shape [4],
\* output shape [2] gives node0 = [0, 1] and node1 = [2, 3].
C2_SerialRowMajor ==
    (status = "done" /\ Len(argv) > 0 /\ argv[1] = "serial") =>
        /\ \A o \in Nodes(output_shape) : \A i \in 0..(fanin - 1) :
                table[o][i + 1] = (o * fanin + i) % InSize
        /\ (input_shape = <<4>> /\ output_shape = <<2>> /\ fanin = 2) =>
                (table[0] = <<0, 1>> /\ table[1] = <<2, 3>>)

C2_Witness ==
    /\ status = "done"
    /\ argv = <<"serial">>
    /\ input_shape = <<4>> /\ output_shape = <<2>> /\ fanin = 2
    /\ seed = MaxSeed
    /\ table[0] = <<0, 1>> /\ table[1] = <<2, 3>>
    /\ setCalls = 4

\* C3: a call with a fan-in N larger than the number of input nodes never
\* completes (it is rejected as a fatal error, before any connection is made),
\* for every strategy, and no table ever holds an input index twice in one
\* output node's list.
C3_FanInRejected ==
    /\ fanin > InSize =>
            /\ status # "done"
            /\ status \in {"assert", "exhausted"} => setCalls = 0
    /\ \A o \in DOMAIN table : RowDistinct(table[o])

\* C4: a non-empty strategy string whose first token is none of pointwise,
\* depthwise, gauss, serial, random ends in the assertion failure with no
\* SetNodeInput call made; the empty strategy string behaves as random.
C4_UnknownStrategy ==
    /\ (Len(argv) > 0 /\ argv[1] \notin KnownStrategies /\ status # "init") =>
            /\ status = "assert"
            /\ setCalls = 0
            /\ table = EmptyTable(output_shape, fanin)
    /\ (Len(argv) = 0 /\ status \notin {"init"}) =>
            LET r == InitializeRandom(input_shape, output_shape, fanin, seed,
                                      EmptyTable(output_shape, fanin))
            IN  /\ status = r.status
                /\ setCalls = r.calls
                /\ status = "done" => table = r.table

C4_Witness ==
    /\ status = "assert"
    /\ argv = <<"bogus", "random">>
    /\ setCalls = 0
    /\ table = EmptyTable(output_shape, fanin)

\* C5: pointwise ends in an assertion failure with no SetNodeInput call unless
\* both shapes are 3-D with equal extents on axes 0 and 1; depthwise does so
\* unless both shapes are 3-D with equal extent on axis 2; gauss, serial and
\* random never end in an assertion failure.
C5_ShapeGuards ==
    LET threeD == Len(input_shape) = 3 /\ Len(output_shape) = 3
        sameXY == /\ input_shape[1] = output_shape[1]
                  /\ input_shape[2] = output_shape[2]
        sameC  == input_shape[3] = output_shape[3]
        Failing == status = "assert" /\ setCalls = 0
                   /\ table = EmptyTable(output_shape, fanin)
    IN  /\ (status # "init" /\ Len(argv) > 0 /\ argv[1] = "pointwise") =>
              IF threeD /\ sameXY THEN status # "assert" ELSE Failing
        /\ (status # "init" /\ Len(argv) > 0 /\ argv[1] = "depthwise") =>
              IF threeD /\ sameC THEN status # "assert" ELSE Failing
        /\ (Len(argv) = 0 \/ argv[1] \in {"gauss", "serial", "random"}) =>
              status # "assert"

C5_Witness ==
    /\ status = "assert"
    /\ argv = <<"pointwise">>
    /\ Len(input_shape) = 3 /\ Len(output_shape) = 3
    /\ input_shape[1] = output_shape[1]
    /\ input_shape[2] # output_shape[2]
    /\ setCalls = 0

C7_GaussTerminates ==
    /\ (status = "gauss" /\ fanin <= InSize) ~> (status = "done")
    /\ []((status = "done" /\ Strategy = "gauss") =>
             \A o \in Nodes(output_shape) : gauss.visited[o] = 1)

-----------------------------------------------------------------------------
(* Sequential.  Its children are layers behind the Layer interface: child l *)
(* owns ParamCount(l) parameter tensors and as many gradient tensors, and   *)
(* its Forward and Backward return a buffer that records the call.          *)

LayerIds == 1..MaxLayerId
Buffers  == { <<[op |-> "input", layer |-> b, train |-> FALSE]>> : b \in 1..MaxBuf }

ParamCount(l) == l - 1
LayerGetParameters(l) == [j \in 1..ParamCount(l) |-> [layer |-> l, kind |-> "param", idx |-> j]]
LayerGetGradients(l)  == [j \in 1..ParamCount(l) |-> [layer |-> l, kind |-> "grad", idx |-> j]]
LayerForward(l, x, train) == Append(x, [op |-> "Forward", layer |-> l, train |-> train])
LayerBackward(l, dy)      == Append(dy, [op |-> "Backward", layer |-> l, train |-> FALSE])

\* Variables::PushBack(Variables const&) (bb/Variables.h, not among the sources)
PushBack(vs, more) == vs \o more

\* for (auto layer : m_layers) parameters.PushBack(layer->GetParameters());
RECURSIVE Sequential_GetParameters(_)
Sequential_GetParameters(layers) ==
    IF layers = <<>> THEN <<>>
    ELSE PushBack(Sequential_GetParameters(SubSeq(layers, 1, Len(layers) - 1)),
                  LayerGetParameters(layers[Len(layers)]))

\* Sequential_GetGradients collecting from the last child to the first
RECURSIVE Sequential_GetGradients_Reversed(_)
Sequential_GetGradients_Reversed(layers) ==
    IF layers = <<>> THEN <<>>
    ELSE PushBack(Sequential_GetGradients_Reversed(Tail(layers)),
                  LayerGetGradients(Head(layers)))

\* for (auto layer : m_layers) gradients.PushBack(layer->GetGradients());
RECURSIVE Sequential_GetGradients(_)
Sequential_GetGradients(layers) ==
    IF layers = <<>> THEN <<>>
    ELSE PushBack(Sequential_GetGradients(SubSeq(layers, 1, Len(layers) - 1)),
                  LayerGetGradients(layers[Len(layers)]))

Call(l, op, arg, train, ret) ==
    [layer |-> l, op |-> op, arg |-> arg, train |-> train, ret |-> ret]

\* for (auto layer : m_layers) x = layer->Forward(x, train);   [result, calls]
RECURSIVE Sequential_ForwardFrom(_, _, _, _, _)
Sequential_ForwardFrom(layers, k, x, train, calls) ==
    IF k > Len(layers) THEN [result |-> x, calls |-> calls]
    ELSE LET y == LayerForward(layers[k], x, train)
         IN  Sequential_ForwardFrom(layers, k + 1, y, train,
                                    Append(calls, Call(layers[k], "Forward", x, train, y)))

Sequential_Forward(layers, x, train) == Sequential_ForwardFrom(layers, 1, x, train, <<>>)

\* for (it = m_layers.rbegin(); it != m_layers.rend(); ++it) dy = (*it)->Backward(dy);
RECURSIVE Sequential_BackwardFrom(_, _, _, _)
Sequential_BackwardFrom(layers, k, dy, calls) ==
    IF k < 1 THEN [result |-> dy, calls |-> calls]
    ELSE LET dx == LayerBackward(layers[k], dy)
         IN  Sequential_BackwardFrom(layers, k - 1, dx,
                                     Append(calls, Call(layers[k], "Backward", dy, FALSE, dx)))

\* Sequential_Backward walking the children first to last
Sequential_Backward_FirstToLast(layers, dy) ==
    LET r == Sequential_ForwardFrom(layers, 1, dy, FALSE, <<>>)
    IN  [result |-> r.result,
         calls  |-> [k \in 1..Len(r.calls) |->
                        Call(r.calls[k].layer, "Backward", r.calls[k].arg, FALSE,
                             r.calls[k].ret)]]

Sequential_Backward(layers, dy) == Sequential_BackwardFrom(layers, Len(layers), dy, <<>>)

SeqInit ==
    /\ m_layers = <<>>
    /\ seq_calls = <<>>
    /\ seq_result = <<>>
    /\ seq_op = [op |-> "new", x |-> <<>>, train |-> FALSE]
    /\ input_shape = <<>> /\ output_shape = <<>> /\ fanin = 0 /\ argv = <<>>
    /\ seed = 0 /\ status = "idle" /\ table = <<>> /\ setCalls = 0
    /\ gauss = NoGauss /\ prevRun = NoRun
    /\ m_bn_enable = TRUE /\ m_memory_saving = TRUE /\ m_training = TRUE
    /\ comp_op = <<>>
    /\ m_training_create = DefaultCreate /\ m_inference_create = DefaultCreate
    /\ m_real2bin = DefaultCreate /\ m_bin2real = [modulation_size |-> 1]
    /\ m_binary_mode = FALSE /\ m_host_only = FALSE
    /\ m_x_buf = EmptyBuffer /\ m_y_buf = EmptyBuffer
    /\ sub_x_buf = NoSubBuffers /\ sub_shape = <<>> /\ sub_calls = <<>> /\ returned = <<>> /\ fwd_hist = NoHistory /\ archive = NoArchive /\ fwd_mode = NoForward /\ net = NoNet /\ T = "fp32"

Add(layer) ==
    /\ Len(m_layers) < MaxLayers
    /\ m_layers' = Append(m_layers, layer)
    /\ seq_op' = [op |-> "Add", x |-> <<>>, train |-> FALSE]
    /\ seq_calls' = <<>>
    /\ seq_result' = <<>>
    /\ UNCHANGED <<sparseVars, compVars, extVars>>

Forward(x, train) ==
    /\ LET r == Sequential_Forward(m_layers, x, train)
       IN  /\ seq_calls' = r.calls
           /\ seq_result' = r.result
    /\ seq_op' = [op |-> "Forward", x |-> x, train |-> train]
    /\ UNCHANGED <<m_layers, sparseVars, compVars, extVars>>

Backward(dy) ==
    /\ LET r == Sequential_Backward(m_layers, dy)
       IN  /\ seq_calls' = r.calls
           /\ seq_result' = r.result
    /\ seq_op' = [op |-> "Backward", x |-> dy, train |-> FALSE]
    /\ UNCHANGED <<m_layers, sparseVars, compVars, extVars>>

GetParameters ==
    /\ seq_result' = Sequential_GetParameters(m_layers)
    /\ seq_calls' = <<>>
    /\ seq_op' = [op |-> "GetParameters", x |-> <<>>, train |-> FALSE]
    /\ UNCHANGED <<m_layers, sparseVars, compVars, extVars>>

GetGradients ==
    /\ seq_result' = Sequential_GetGradients(m_layers)
    /\ seq_calls' = <<>>
    /\ seq_op' = [op |-> "GetGradients", x |-> <<>>, train |-> FALSE]
    /\ UNCHANGED <<m_layers, sparseVars, compVars, extVars>>

SeqNext ==
    \/ \E layer \in LayerIds : Add(layer)
    \/ \E x \in Buffers, train \in BOOLEAN : Forward(x, train)
    \/ \E dy \in Buffers : Backward(dy)
    \/ GetParameters
    \/ GetGradients

SpecSeq == SeqInit /\ [][SeqNext]_vars

-----------------------------------------------------------------------------
(* Properties of Sequential *)

\* the number of parameter tensors of the children before position k
RECURSIVE ParamOffset(_, _)
ParamOffset(layers, k) ==
    IF k <= 1 THEN 0 ELSE ParamOffset(layers, k - 1) + ParamCount(layers[k - 1])

\* C8: Forward(x, train) calls every child's Forward once, in the order the
\* children were added, each with the previous child's output and with the same
\* train flag, and returns the last output; Backward(dy) calls every child's
\* Backward once, in the reverse order, each with the previous result, and
\* returns the last one.
C8_SequentialOrder ==
    LET n == Len(m_layers)
        Chained(first) ==
            /\ Len(seq_calls) = n
            /\ \A k \in 1..n :
                  seq_calls[k].arg = IF k = 1 THEN first ELSE seq_calls[k - 1].ret
            /\ seq_result = IF n = 0 THEN first ELSE seq_calls[n].ret
    IN  /\ seq_op.op = "Forward" =>
              /\ Chained(seq_op.x)
              /\ \A k \in 1..n :
                    /\ seq_calls[k].layer = m_layers[k]
                    /\ seq_calls[k].op = "Forward"
                    /\ seq_calls[k].train = seq_op.train
                    /\ seq_calls[k].ret =
                          LayerForward(m_layers[k], seq_calls[k].arg, seq_op.train)
        /\ seq_op.op = "Backward" =>
              /\ Chained(seq_op.x)
              /\ \A k \in 1..n :
                    /\ seq_calls[k].layer = m_layers[n + 1 - k]
                    /\ seq_calls[k].op = "Backward"
                    /\ seq_calls[k].ret =
                          LayerBackward(m_layers[n + 1 - k], seq_calls[k].arg)

C8_Witness ==
    /\ seq_op.op = "Backward"
    /\ m_layers = <<1, 2, 3>>
    /\ Len(seq_calls) = 3
    /\ seq_calls[1].layer = 3 /\ seq_calls[2].layer = 2 /\ seq_calls[3].layer = 1
    /\ seq_calls[1].arg = seq_op.x
    /\ seq_result = seq_calls[3].ret

\* C9: GetParameters() is the concatenation of the children's GetParameters()
\* in the order the children were added, GetGradients() the concatenation of
\* their GetGradients() in the same order, so position i of both lists belongs
\* to the same tensor of the same child.
C9_ParameterOrder ==
    LET n == Len(m_layers)
        P == Sequential_GetParameters(m_layers)
        G == Sequential_GetGradients(m_layers)
    IN  /\ Len(P) = ParamOffset(m_layers, n + 1)
        /\ Len(G) = ParamOffset(m_layers, n + 1)
        /\ \A k \in 1..n : \A j \in 1..ParamCount(m_layers[k]) :
              /\ P[ParamOffset(m_layers, k) + j] = LayerGetParameters(m_layers[k])[j]
              /\ G[ParamOffset(m_layers, k) + j] = LayerGetGradients(m_layers[k])[j]
        /\ \A i \in 1..Len(P) : P[i].layer = G[i].layer /\ P[i].idx = G[i].idx
        /\ seq_op.op = "GetParameters" => seq_result = P
        /\ seq_op.op = "GetGradients" => seq_result = G

C9_Witness ==
    /\ seq_op.op = "GetGradients"
    /\ m_layers = <<3, 2>>
    /\ seq_result = << [layer |-> 3, kind |-> "grad", idx |-> 1],
                       [layer |-> 3, kind |-> "grad", idx |-> 2],
                       [layer |-> 2, kind |-> "grad", idx |-> 1] >>

-----------------------------------------------------------------------------
(* The composites BinaryModulation, SparseLutN and StochasticLut.  A        *)
(* collection is the sequence of the sub-layers it was collected from.      *)

Composites == {"BinaryModulation", "SparseLutN", "StochasticLut"}

\* the token sequences SplitString(command) of the commands sent
Commands == { <<"batch_normalization", "true">>, <<"batch_normalization", "false">>,
              <<"memory_saving", "true">>, <<"memory_saving", "false">>,
              <<"batch_normalization">>, <<"memory_saving", "false", "x">>,
              <<"binary", "true">>, <<"binary", "true", "x">>,
              <<"host_only", "true">>, <<"host_only">> }
Targets  == {"all", "BinaryModulation", "SparseLutN", "StochasticLut", "ReLU"}

\* EvalBool (bb/Utility.h, not among the sources)
EvalBool(token) == token = "true"

\* Model::SendCommand (bb/Model.h, not among the sources): the command is
\* processed when it is sent to all layers or to this layer's class
Model_SendCommand(class, send_to) == send_to = "all" \/ send_to = class

StochasticLut_CommandProc(bn_enable, args) ==
    IF Len(args) = 2 /\ args[1] = "batch_normalization" THEN EvalBool(args[2])
    ELSE bn_enable

SparseLutN_CommandProc(memory_saving, args) ==
    IF Len(args) = 2 /\ args[1] = "memory_saving" THEN EvalBool(args[2])
    ELSE memory_saving

From(sub, kind) == <<[sub |-> sub, kind |-> kind]>>

BinaryModulation_GetParameters ==
    PushBack(PushBack(From("m_real2bin", "param"), From("m_layer", "param")),
             From("m_bin2real", "param"))

BinaryModulation_GetGradients ==
    PushBack(PushBack(From("m_real2bin", "grad"), From("m_layer", "grad")),
             From("m_bin2real", "grad"))

SparseLutN_GetParameters ==
    PushBack(From("m_lut", "param"), From("m_batch_norm", "param"))

SparseLutN_GetGradients ==
    PushBack(From("m_lut", "grad"), From("m_batch_norm", "grad"))

StochasticLut_GetParameters(bn_enable) ==
    LET parameters == From("m_lut", "param")
    IN  IF bn_enable THEN PushBack(parameters, From("m_batch_norm", "param"))
        ELSE parameters

\* StochasticLut_GetGradients without the test of m_bn_enable
StochasticLut_GetGradients_Always(bn_enable) ==
    PushBack(From("m_lut", "grad"), From("m_batch_norm", "grad"))

StochasticLut_GetGradients(bn_enable) ==
    LET gradients == From("m_lut", "grad")
    IN  IF bn_enable THEN PushBack(gradients, From("m_batch_norm", "grad"))
        ELSE gradients

CompositeGetParameters(c) ==
    CASE c = "BinaryModulation" -> BinaryModulation_GetParameters
      [] c = "SparseLutN"       -> SparseLutN_GetParameters
      [] c = "StochasticLut"    -> StochasticLut_GetParameters(m_bn_enable)

CompositeGetGradients(c) ==
    CASE c = "BinaryModulation" -> BinaryModulation_GetGradients
      [] c = "SparseLutN"       -> SparseLutN_GetGradients
      [] c = "StochasticLut"    -> StochasticLut_GetGradients(m_bn_enable)

CompOp(layer, op, args, subs) ==
    [layer |-> layer, op |-> op, args |-> args, subs |-> subs]

CompInit ==
    /\ m_bn_enable = TRUE
    /\ m_memory_saving = TRUE
    /\ m_training = TRUE
    /\ comp_op = CompOp("", "new", <<>>, <<>>)
    /\ input_shape = <<>> /\ output_shape = <<>> /\ fanin = 0 /\ argv = <<>>
    /\ seed = 0 /\ status = "idle" /\ table = <<>> /\ setCalls = 0
    /\ gauss = NoGauss /\ prevRun = NoRun
    /\ m_layers = <<>> /\ seq_calls = <<>> /\ seq_result = <<>> /\ seq_op = <<>>
    /\ m_training_create = DefaultCreate /\ m_inference_create = DefaultCreate
    /\ m_real2bin = DefaultCreate /\ m_bin2real = [modulation_size |-> 1]
    /\ m_binary_mode = FALSE /\ m_host_only = FALSE
    /\ m_x_buf = EmptyBuffer /\ m_y_buf = EmptyBuffer
    /\ sub_x_buf = NoSubBuffers /\ sub_shape = <<>> /\ sub_calls = <<>> /\ returned = <<>> /\ fwd_hist = NoHistory /\ archive = NoArchive /\ fwd_mode = NoForward /\ net = NoNet /\ T = "fp32"

\* a call of a sub-layer, with the sub-layer's configuration at the time
SubCall(sub, op, arg, train, result, cfg) ==
    [layer |-> sub, op |-> op, arg |-> arg, train |-> train, ret |-> result, cfg |-> cfg]

\* the SendCommand calls a composite makes on its sub-layers: each is handed
\* the command and the target as they came
Deliver(subs, args, send_to) ==
    [k \in 1..Len(subs) |->
        SubCall(subs[k], "SendCommand", <<args, send_to>>, FALSE, <<>>, <<>>)]

StochasticLut_SendCommandCalls(args, send_to) ==
    Deliver(<<"m_lut", "m_batch_norm">>, args, send_to)

SparseLutN_SendCommandCalls(args, send_to) ==
    Deliver(<<"m_lut", "m_batch_norm", "m_activation">>, args, send_to)

BinaryModulation_SendCommandCalls(args, send_to) ==
    Deliver(<<"m_real2bin", "m_layer", "m_bin2real">>, args, send_to)

\* Sequential declares no SendCommand: the call runs the one it inherits, which
\* knows nothing of m_layers, a member of Sequential
Sequential_SendCommandCalls(layers, args, send_to) == <<>>

\* ReLU_CommandProc without the test of the argument count
ReLU_CommandProc_AnyCount(binary_mode, host_only, args) ==
    [binary_mode |-> IF Len(args) >= 2 /\ args[1] = "binary"
                     THEN EvalBool(args[2]) ELSE binary_mode,
     host_only   |-> IF Len(args) >= 2 /\ args[1] = "host_only"
                     THEN EvalBool(args[2]) ELSE host_only]

ReLU_CommandProc(binary_mode, host_only, args) ==
    [binary_mode |-> IF Len(args) = 2 /\ args[1] = "binary"
                     THEN EvalBool(args[2]) ELSE binary_mode,
     host_only   |-> IF Len(args) = 2 /\ args[1] = "host_only"
                     THEN EvalBool(args[2]) ELSE host_only]

StochasticLut_SendCommand(args, send_to) ==
    /\ m_bn_enable' = IF Model_SendCommand("StochasticLut", send_to)
                      THEN StochasticLut_CommandProc(m_bn_enable, args)
                      ELSE m_bn_enable
    /\ sub_calls' = StochasticLut_SendCommandCalls(args, send_to)
    /\ comp_op' = CompOp("StochasticLut", "SendCommand", args \o <<send_to>>, <<>>)
    /\ UNCHANGED <<m_memory_saving, m_training, sparseVars, seqVars, archive, T, fwd_mode, net,
                   modVars, reluVars, sub_x_buf, sub_shape, returned, fwd_hist>>

SparseLutN_SendCommand(args, send_to) ==
    /\ m_memory_saving' = IF Model_SendCommand("SparseLutN", send_to)
                          THEN SparseLutN_CommandProc(m_memory_saving, args)
                          ELSE m_memory_saving
    /\ sub_calls' = SparseLutN_SendCommandCalls(args, send_to)
    /\ comp_op' = CompOp("SparseLutN", "SendCommand", args \o <<send_to>>, <<>>)
    /\ UNCHANGED <<m_bn_enable, m_training, sparseVars, seqVars, archive, T, fwd_mode, net,
                   modVars, reluVars, sub_x_buf, sub_shape, returned, fwd_hist>>

BinaryModulation_SendCommand(args, send_to) ==
    /\ sub_calls' = BinaryModulation_SendCommandCalls(args, send_to)
    /\ comp_op' = CompOp("BinaryModulation", "SendCommand", args \o <<send_to>>, <<>>)
    /\ UNCHANGED <<m_bn_enable, m_memory_saving, m_training, sparseVars, seqVars, archive, T, fwd_mode, net,
                   modVars, reluVars, sub_x_buf, sub_shape, returned, fwd_hist>>

Sequential_SendCommand(args, send_to) ==
    /\ sub_calls' = Sequential_SendCommandCalls(m_layers, args, send_to)
    /\ comp_op' = CompOp("Sequential", "SendCommand", args \o <<send_to>>, <<>>)
    /\ UNCHANGED <<m_bn_enable, m_memory_saving, m_training, sparseVars, seqVars, archive, T, fwd_mode, net,
                   modVars, reluVars, sub_x_buf, sub_shape, returned, fwd_hist>>

ReLU_SendCommand(args, send_to) ==
    /\ LET r == IF Model_SendCommand("ReLU", send_to)
                THEN ReLU_CommandProc(m_binary_mode, m_host_only, args)
                ELSE [binary_mode |-> m_binary_mode, host_only |-> m_host_only]
       IN  /\ m_binary_mode' = r.binary_mode
           /\ m_host_only' = r.host_only
    /\ sub_calls' = <<>>
    /\ comp_op' = CompOp("ReLU", "SendCommand", args \o <<send_to>>, <<>>)
    /\ UNCHANGED <<m_bn_enable, m_memory_saving, m_training, sparseVars, seqVars, archive, T, fwd_mode, net,
                   modVars, m_x_buf, m_y_buf, sub_x_buf, sub_shape, returned, fwd_hist>>

BoolStr(b) == IF b THEN "true" ELSE "false"

\* BinaryModulation_Switch leaving the reducer's modulation size as it is
BinaryModulation_Switch_ExpanderOnly(train, training, real2bin, bin2real, tc, ic) ==
    IF train /\ ~training
    THEN [training |-> TRUE, bin2real |-> bin2real,
          real2bin |-> [real2bin EXCEPT !.modulation_size = tc.modulation_size,
                                        !.value_generator = tc.value_generator]]
    ELSE IF ~train /\ training
    THEN [training |-> FALSE, bin2real |-> bin2real,
          real2bin |-> [real2bin EXCEPT !.modulation_size = ic.modulation_size,
                                        !.value_generator = ic.value_generator]]
    ELSE [training |-> training, real2bin |-> real2bin, bin2real |-> bin2real]

\* the switch at the head of BinaryModulation::Forward: SetModulationSize and
\* SetValueGenerator on the expander, SetModulationSize on the reducer
BinaryModulation_Switch(train, training, real2bin, bin2real, tc, ic) ==
    IF train /\ ~training
    THEN [training |-> TRUE,
          real2bin |-> [real2bin EXCEPT !.modulation_size = tc.modulation_size,
                                        !.value_generator = tc.value_generator],
          bin2real |-> [bin2real EXCEPT !.modulation_size = tc.modulation_size]]
    ELSE IF ~train /\ training
    THEN [training |-> FALSE,
          real2bin |-> [real2bin EXCEPT !.modulation_size = ic.modulation_size,
                                        !.value_generator = ic.value_generator],
          bin2real |-> [bin2real EXCEPT !.modulation_size = ic.modulation_size]]
    ELSE [training |-> training, real2bin |-> real2bin, bin2real |-> bin2real]

\* BinaryModulation_SwitchCalls making the three calls in every Forward
BinaryModulation_SwitchCalls_Always(train, training) ==
    IF train
    THEN From("m_real2bin", "SetModulationSize(training)")
         \o From("m_real2bin", "SetValueGenerator(training)")
         \o From("m_bin2real", "SetModulationSize(training)")
    ELSE From("m_real2bin", "SetModulationSize(inference)")
         \o From("m_real2bin", "SetValueGenerator(inference)")
         \o From("m_bin2real", "SetModulationSize(inference)")

\* the calls the switch at the head of BinaryModulation::Forward makes on the
\* expander and the reducer
BinaryModulation_SwitchCalls(train, training) ==
    IF train /\ ~training
    THEN From("m_real2bin", "SetModulationSize(training)")
         \o From("m_real2bin", "SetValueGenerator(training)")
         \o From("m_bin2real", "SetModulationSize(training)")
    ELSE IF ~train /\ training
    THEN From("m_real2bin", "SetModulationSize(inference)")
         \o From("m_real2bin", "SetValueGenerator(inference)")
         \o From("m_bin2real", "SetModulationSize(inference)")
    ELSE <<>>

\* x = m_real2bin->Forward; x = m_layer->Forward; x = m_bin2real->Forward
BinaryModulation_ForwardCalls(x, train, real2bin, bin2real) ==
    LET y1 == LayerForward("m_real2bin", x, train)
        y2 == LayerForward("m_layer", y1, train)
        y3 == LayerForward("m_bin2real", y2, train)
    IN  << SubCall("m_real2bin", "Forward", x, train, y1, real2bin),
           SubCall("m_layer", "Forward", y1, train, y2, <<>>),
           SubCall("m_bin2real", "Forward", y2, train, y3, bin2real) >>

\* BinaryModulation_BackwardCalls calling the expander first
BinaryModulation_BackwardCalls_ExpanderFirst(dy, real2bin, bin2real) ==
    LET d1 == LayerBackward("m_real2bin", dy)
        d2 == LayerBackward("m_layer", d1)
        d3 == LayerBackward("m_bin2real", d2)
    IN  << SubCall("m_real2bin", "Backward", dy, FALSE, d1, real2bin),
           SubCall("m_layer", "Backward", d1, FALSE, d2, <<>>),
           SubCall("m_bin2real", "Backward", d2, FALSE, d3, bin2real) >>

\* dy = m_bin2real->Backward; dy = m_layer->Backward; dy = m_real2bin->Backward
BinaryModulation_BackwardCalls(dy, real2bin, bin2real) ==
    LET d1 == LayerBackward("m_bin2real", dy)
        d2 == LayerBackward("m_layer", d1)
        d3 == LayerBackward("m_real2bin", d2)
    IN  << SubCall("m_bin2real", "Backward", dy, FALSE, d1, bin2real),
           SubCall("m_layer", "Backward", d1, FALSE, d2, <<>>),
           SubCall("m_real2bin", "Backward", d2, FALSE, d3, real2bin) >>

\* comp_op.args of a Forward: the train flag and m_training on entry;
\* comp_op.subs: the calls of the switch
BinaryModulation_Forward(x, train) ==
    LET sw == BinaryModulation_Switch(train, m_training, m_real2bin, m_bin2real,
                                      m_training_create, m_inference_create)
        calls == BinaryModulation_ForwardCalls(x, train, sw.real2bin, sw.bin2real)
    IN  /\ m_training' = sw.training
        /\ m_real2bin' = sw.real2bin
        /\ m_bin2real' = sw.bin2real
        /\ sub_calls' = calls
        /\ returned' = calls[3].ret
        /\ comp_op' = CompOp("BinaryModulation", "Forward",
                             <<BoolStr(train), BoolStr(m_training)>>,
                             BinaryModulation_SwitchCalls(train, m_training))
        /\ UNCHANGED <<m_bn_enable, m_memory_saving, sparseVars, seqVars, archive, T, fwd_mode, net,
                       m_training_create, m_inference_create, reluVars,
                       sub_x_buf, sub_shape, fwd_hist>>

BinaryModulation_Backward(dy) ==
    LET calls == BinaryModulation_BackwardCalls(dy, m_real2bin, m_bin2real)
    IN  /\ sub_calls' = calls
        /\ returned' = calls[3].ret
        /\ comp_op' = CompOp("BinaryModulation", "Backward", <<>>, <<>>)
        /\ UNCHANGED <<m_bn_enable, m_memory_saving, m_training, sparseVars, seqVars, archive, T, fwd_mode, net,
                       modVars, reluVars, sub_x_buf, sub_shape, fwd_hist>>

Composite_GetParameters(c) ==
    /\ comp_op' = CompOp(c, "GetParameters", <<>>, CompositeGetParameters(c))
    /\ UNCHANGED <<m_bn_enable, m_memory_saving, m_training, sparseVars, seqVars, extVars>>

Composite_GetGradients(c) ==
    /\ comp_op' = CompOp(c, "GetGradients", <<>>, CompositeGetGradients(c))
    /\ UNCHANGED <<m_bn_enable, m_memory_saving, m_training, sparseVars, seqVars, extVars>>

CompNext ==
    \/ \E args \in Commands, send_to \in Targets : StochasticLut_SendCommand(args, send_to)
    \/ \E args \in Commands, send_to \in Targets : SparseLutN_SendCommand(args, send_to)
    \/ \E x \in Buffers, train \in BOOLEAN : BinaryModulation_Forward(x, train)
    \/ \E c \in Composites : Composite_GetParameters(c)
    \/ \E c \in Composites : Composite_GetGradients(c)

SpecComp == CompInit /\ [][CompNext]_vars

-----------------------------------------------------------------------------
(* Properties of the composites *)

SubLayers(collection) == [i \in 1..Len(collection) |-> collection[i].sub]

\* C10: in every reachable state of BinaryModulation, SparseLutN and
\* StochasticLut, GetParameters() and GetGradients() collect from the same
\* sub-layers in the same order, and what either returns is that collection.
C10_SameSubLayers ==
    /\ \A c \in Composites :
          SubLayers(CompositeGetParameters(c)) = SubLayers(CompositeGetGradients(c))
    /\ comp_op.op = "GetParameters" =>
          SubLayers(comp_op.subs) = SubLayers(CompositeGetGradients(comp_op.layer))
    /\ comp_op.op = "GetGradients" =>
          SubLayers(comp_op.subs) = SubLayers(CompositeGetParameters(comp_op.layer))

C10_Witness ==
    /\ ~m_bn_enable
    /\ comp_op.layer = "StochasticLut"
    /\ comp_op.op = "GetGradients"
    /\ SubLayers(comp_op.subs) = <<"m_lut">>

\* the sub-layers GetParameters() collects from right after construction
\* (m_bn_enable is true then)
ConstructedParameters(c) ==
    CASE c = "BinaryModulation" -> BinaryModulation_GetParameters
      [] c = "SparseLutN"       -> SparseLutN_GetParameters
      [] c = "StochasticLut"    -> StochasticLut_GetParameters(TRUE)

\* C11: the sequence of sub-layers a composite's GetParameters() collects from
\* is in every reachable state the one it was right after construction, also
\* for StochasticLut after a "batch_normalization" command.
C11_StableParameters ==
    /\ \A c \in Composites :
          SubLayers(CompositeGetParameters(c)) = SubLayers(ConstructedParameters(c))
    /\ comp_op.op = "GetParameters" =>
          SubLayers(comp_op.subs) = SubLayers(ConstructedParameters(comp_op.layer))

-----------------------------------------------------------------------------
(* BinaryModulation: the constructor with any configuration, Forward and    *)
(* Backward                                                                *)

ValueGenerators == {"g1", "g2"}
InputRanges     == { <<0, 1>>, <<0 - 1, 1>> }

\* the RealToBinary create_t the constructor builds for one mode
Creates ==
    { [modulation_size |-> n, value_generator |-> g, framewise |-> f,
       input_range_lo |-> r[1], input_range_hi |-> r[2]] :
        n \in 1..MaxMod, g \in ValueGenerators, f \in BOOLEAN, r \in InputRanges }

ModInit ==
    /\ m_training_create \in Creates
    /\ m_inference_create \in Creates
    /\ m_training = TRUE
    /\ m_real2bin = m_training_create
    /\ m_bin2real = [modulation_size |-> m_training_create.modulation_size]
    /\ comp_op = CompOp("BinaryModulation", "new", <<>>, <<>>)
    /\ sub_calls = <<>> /\ returned = <<>> /\ fwd_hist = NoHistory /\ archive = NoArchive /\ fwd_mode = NoForward /\ net = NoNet /\ T = "fp32"
    /\ m_bn_enable = TRUE /\ m_memory_saving = TRUE
    /\ m_binary_mode = FALSE /\ m_host_only = FALSE
    /\ m_x_buf = EmptyBuffer /\ m_y_buf = EmptyBuffer
    /\ sub_x_buf = NoSubBuffers /\ sub_shape = <<>>
    /\ input_shape = <<>> /\ output_shape = <<>> /\ fanin = 0 /\ argv = <<>>
    /\ seed = 0 /\ status = "idle" /\ table = <<>> /\ setCalls = 0
    /\ gauss = NoGauss /\ prevRun = NoRun
    /\ m_layers = <<>> /\ seq_calls = <<>> /\ seq_result = <<>> /\ seq_op = <<>>

ModNext ==
    \/ \E x \in Buffers, train \in BOOLEAN : BinaryModulation_Forward(x, train)
    \/ \E dy \in Buffers : BinaryModulation_Backward(dy)

SpecMod == ModInit /\ [][ModNext]_vars

\* the create_t of the mode a Forward with this train flag runs in
ModeCreate(train) == IF train THEN m_training_create ELSE m_inference_create

\* C12: after every BinaryModulation::Forward(x, train) the training flag is
\* train, the expander and the reducer have the modulation size of that mode
\* and the expander the value generator of that mode; the three sub-layer
\* Forward calls of the call already ran under that configuration.
C12_ForwardReconfigures ==
    (comp_op.layer = "BinaryModulation" /\ comp_op.op = "Forward") =>
        LET train == comp_op.args[1] = "true"
            mode  == ModeCreate(train)
        IN  /\ m_training = train
            /\ m_real2bin.modulation_size = mode.modulation_size
            /\ m_bin2real.modulation_size = mode.modulation_size
            /\ m_real2bin.value_generator = mode.value_generator
            /\ Len(sub_calls) = 3
            /\ \A k \in 1..3 : sub_calls[k].op = "Forward" /\ sub_calls[k].train = train
            /\ sub_calls[1].layer = "m_real2bin"
            /\ sub_calls[1].cfg.modulation_size = mode.modulation_size
            /\ sub_calls[1].cfg.value_generator = mode.value_generator
            /\ sub_calls[3].layer = "m_bin2real"
            /\ sub_calls[3].cfg.modulation_size = mode.modulation_size

C12_Witness ==
    /\ comp_op.layer = "BinaryModulation" /\ comp_op.op = "Forward"
    /\ comp_op.args = <<"false", "true">>
    /\ m_training_create.modulation_size # m_inference_create.modulation_size
    /\ m_training_create.value_generator # m_inference_create.value_generator
    /\ ~m_training
    /\ sub_calls[3].cfg.modulation_size = m_inference_create.modulation_size

\* C13: when a BinaryModulation::Forward call flips the mode, the expander has
\* afterwards the complete parameter set of the new mode: modulation size,
\* value generator, framewise flag and input range.
C13_CompleteReconfiguration ==
    (comp_op.layer = "BinaryModulation" /\ comp_op.op = "Forward"
        /\ comp_op.args[1] # comp_op.args[2]) =>
        m_real2bin = ModeCreate(comp_op.args[1] = "true")

\* C14: BinaryModulation::Backward changes neither the training flag nor the
\* configuration of the expander and the reducer, so it runs under the
\* configuration of the most recent Forward; it calls the Backward of the
\* reducer, of the inner layer and of the expander, in that order, each with
\* the previous result.
C14_BackwardKeepsConfiguration ==
    [][ (comp_op'.layer = "BinaryModulation" /\ comp_op'.op = "Backward") =>
            /\ m_training' = m_training
            /\ m_real2bin' = m_real2bin
            /\ m_bin2real' = m_bin2real
            /\ Len(sub_calls') = 3
            /\ \A k \in 1..3 : sub_calls'[k].op = "Backward"
            /\ sub_calls'[1].layer = "m_bin2real" /\ sub_calls'[1].cfg = m_bin2real
            /\ sub_calls'[2].layer = "m_layer"
            /\ sub_calls'[3].layer = "m_real2bin" /\ sub_calls'[3].cfg = m_real2bin
            /\ sub_calls'[2].arg = sub_calls'[1].ret
            /\ sub_calls'[3].arg = sub_calls'[2].ret
            /\ returned' = sub_calls'[3].ret ]_vars

C14_Witness ==
    /\ comp_op.layer = "BinaryModulation" /\ comp_op.op = "Backward"
    /\ ~m_training
    /\ m_training_create.modulation_size # m_inference_create.modulation_size
    /\ m_real2bin.modulation_size = m_inference_create.modulation_size
    /\ sub_calls[1].layer = "m_bin2real"
    /\ sub_calls[1].cfg.modulation_size = m_inference_create.modulation_size
    /\ sub_calls[3].layer = "m_real2bin"

-----------------------------------------------------------------------------
(* The command bus: SendCommand on a Sequential of some children, on the    *)
(* three composites and on a ReLU                                          *)

CmdInit ==
    /\ m_layers = [i \in 1..MaxChildren |-> i]
    /\ m_bn_enable = TRUE /\ m_memory_saving = TRUE /\ m_training = TRUE
    /\ m_binary_mode = FALSE /\ m_host_only = FALSE
    /\ comp_op = CompOp("", "new", <<>>, <<>>)
    /\ sub_calls = <<>> /\ returned = <<>> /\ fwd_hist = NoHistory /\ archive = NoArchive /\ fwd_mode = NoForward /\ net = NoNet /\ T = "fp32"
    /\ m_training_create = DefaultCreate /\ m_inference_create = DefaultCreate
    /\ m_real2bin = DefaultCreate /\ m_bin2real = [modulation_size |-> 1]
    /\ m_x_buf = EmptyBuffer /\ m_y_buf = EmptyBuffer
    /\ sub_x_buf = NoSubBuffers /\ sub_shape = <<>>
    /\ input_shape = <<>> /\ output_shape = <<>> /\ fanin = 0 /\ argv = <<>>
    /\ seed = 0 /\ status = "idle" /\ table = <<>> /\ setCalls = 0
    /\ gauss = NoGauss /\ prevRun = NoRun
    /\ seq_calls = <<>> /\ seq_result = <<>> /\ seq_op = <<>>

CmdNext ==
    \/ \E args \in Commands, send_to \in Targets : Sequential_SendCommand(args, send_to)
    \/ \E args \in Commands, send_to \in Targets : BinaryModulation_SendCommand(args, send_to)
    \/ \E args \in Commands, send_to \in Targets : SparseLutN_SendCommand(args, send_to)
    \/ \E args \in Commands, send_to \in Targets : StochasticLut_SendCommand(args, send_to)
    \/ \E args \in Commands, send_to \in Targets : ReLU_SendCommand(args, send_to)

SpecCmd == CmdInit /\ [][CmdNext]_vars

\* the children of the composite the last SendCommand was called on
Children(layer) ==
    CASE layer = "Sequential"       -> m_layers
      [] layer = "BinaryModulation" -> <<"m_real2bin", "m_layer", "m_bin2real">>
      [] layer = "SparseLutN"       -> <<"m_lut", "m_batch_norm", "m_activation">>
      [] layer = "StochasticLut"    -> <<"m_lut", "m_batch_norm">>
      [] OTHER                      -> <<>>

\* the command and the target of the last SendCommand
SentArgs   == SubSeq(comp_op.args, 1, Len(comp_op.args) - 1)
SentTarget == comp_op.args[Len(comp_op.args)]

\* C15: SendCommand(command, target) on a Sequential, a BinaryModulation, a
\* SparseLutN or a StochasticLut calls SendCommand on every child exactly once,
\* with the same command and the same target, whatever the command, the target
\* and the composite's flags.
C15_CommandReachesChildren ==
    comp_op.op = "SendCommand" =>
        /\ Len(sub_calls) = Len(Children(comp_op.layer))
        /\ \A k \in 1..Len(sub_calls) :
              /\ sub_calls[k].layer = Children(comp_op.layer)[k]
              /\ sub_calls[k].op = "SendCommand"
              /\ sub_calls[k].arg = <<SentArgs, SentTarget>>

\* the flag a two-token command with this key sets on a receiver of this class
OwnCommand(class, key) ==
    /\ comp_op'.op = "SendCommand"
    /\ comp_op'.layer = class
    /\ Len(comp_op'.args) = 3
    /\ comp_op'.args[1] = key

\* C16: no command is an error, and a command changes a receiver's flag only
\* when it is the receiver's own two-token command, and then the flag takes the
\* boolean value of the second token: "binary" and "host_only" for ReLU,
\* "memory_saving" for SparseLutN, "batch_normalization" for StochasticLut.
C16_OnlyOwnCommand ==
    [][ /\ m_binary_mode' # m_binary_mode =>
              OwnCommand("ReLU", "binary") /\ m_binary_mode' = EvalBool(comp_op'.args[2])
        /\ m_host_only' # m_host_only =>
              OwnCommand("ReLU", "host_only") /\ m_host_only' = EvalBool(comp_op'.args[2])
        /\ m_memory_saving' # m_memory_saving =>
              /\ OwnCommand("SparseLutN", "memory_saving")
              /\ m_memory_saving' = EvalBool(comp_op'.args[2])
        /\ m_bn_enable' # m_bn_enable =>
              /\ OwnCommand("StochasticLut", "batch_normalization")
              /\ m_bn_enable' = EvalBool(comp_op'.args[2])
        /\ \A class \in {"ReLU", "SparseLutN", "StochasticLut"} :
              (OwnCommand(class, CASE class = "ReLU" -> "binary"
                                   [] class = "SparseLutN" -> "memory_saving"
                                   [] OTHER -> "batch_normalization")
                 /\ comp_op'.args[3] \in {"all", class}) =>
              (CASE class = "ReLU" -> m_binary_mode'
                 [] class = "SparseLutN" -> m_memory_saving'
                 [] OTHER -> m_bn_enable') = EvalBool(comp_op'.args[2])
      ]_vars

C16_Witness ==
    /\ comp_op.op = "SendCommand" /\ comp_op.layer = "ReLU"
    /\ comp_op.args = <<"binary", "true", "x", "all">>
    /\ m_host_only
    /\ ~m_binary_mode
    /\ ~m_bn_enable
    /\ ~m_memory_saving

-----------------------------------------------------------------------------
(* Forward and Backward with the state saved between them: ReLU, and        *)
(* SparseLutN over its three sub-layers.  A buffer is its element type, its *)
(* frame count, its node shape and the identity of its contents.  A call    *)
(* ends as [status, buf, used]: "ok" with the buffer returned, "assert" for *)
(* a failed BB_ASSERT, "error" for a sub-layer's refusal, "crash" for a run *)
(* that does not survive an invalid read; used is the identity of the      *)
(* saved buffer a Backward computed against (0: none).                     *)

FrameBuffers ==
    { [type |-> "fp32", frames |-> f, shape |-> <<n>>, id |-> i] :
        f \in 1..2, n \in 1..2, i \in 1..MaxBuf }
    \cup { [type |-> "bit", frames |-> 1, shape |-> <<1>>, id |-> 1] }

Outcome(st, buf, used) == [status |-> st, buf |-> buf, used |-> used]

\* FrameBuffer(type, frame_size, shape): a new buffer of these dimensions,
\* filled from the contents `id`
NewBuffer(type, frames, shape, id) ==
    [type |-> type, frames |-> frames, shape |-> shape, id |-> id]

\* Binarize<T>::Forward (bb/Binarize.h, not among the sources), by the layer
\* contract: the input is saved in training mode, and a Forward invalidates
\* what an earlier one saved
Binarize_Forward(x_buf, train, mx, my) ==
    [x_buf |-> IF train THEN x_buf ELSE EmptyBuffer, y_buf |-> my,
     out |-> Outcome("ok", x_buf, 0)]

\* Binarize<T>::Backward (bb/Binarize.h, not among the sources), by the layer
\* contract: an error without a saved input, else the gradient of that input
Binarize_Backward(dy_buf, mx, my) ==
    IF mx = EmptyBuffer
    THEN [x_buf |-> mx, y_buf |-> my, out |-> Outcome("error", EmptyBuffer, 0)]
    ELSE [x_buf |-> EmptyBuffer, y_buf |-> my,
          out |-> Outcome("ok", NewBuffer(dy_buf.type, mx.frames, mx.shape, dy_buf.id),
                          mx.id)]

\* ReLU_ForwardBody returning a buffer of one frame
ReLU_ForwardBody_OneFrame(x_buf, train, binary_mode, mx, my) ==
    IF binary_mode THEN Binarize_Forward(x_buf, train, mx, my)
    ELSE IF x_buf.type # "fp32"
    THEN [x_buf |-> mx, y_buf |-> my, out |-> Outcome("assert", EmptyBuffer, 0)]
    ELSE LET y_buf == NewBuffer(x_buf.type, 1, x_buf.shape, x_buf.id)
         IN  [x_buf |-> IF train THEN x_buf ELSE mx,
              y_buf |-> IF train THEN y_buf ELSE my,
              out   |-> Outcome("ok", y_buf, 0)]

\* ReLU_ForwardBody saving the buffers whatever the train flag
ReLU_ForwardBody_AlwaysSave(x_buf, train, binary_mode, mx, my) ==
    IF binary_mode THEN Binarize_Forward(x_buf, train, mx, my)
    ELSE IF x_buf.type # "fp32"
    THEN [x_buf |-> mx, y_buf |-> my, out |-> Outcome("assert", EmptyBuffer, 0)]
    ELSE LET y_buf == NewBuffer(x_buf.type, x_buf.frames, x_buf.shape, x_buf.id)
         IN  [x_buf |-> x_buf, y_buf |-> y_buf, out |-> Outcome("ok", y_buf, 0)]

\* ReLU::Forward: mx, my are m_x_buf, m_y_buf on entry; the members afterwards
\* and the outcome
ReLU_ForwardBody(x_buf, train, binary_mode, mx, my) ==
    IF binary_mode THEN Binarize_Forward(x_buf, train, mx, my)
    ELSE IF x_buf.type # "fp32"
    THEN [x_buf |-> mx, y_buf |-> my, out |-> Outcome("assert", EmptyBuffer, 0)]
    ELSE LET y_buf == NewBuffer(x_buf.type, x_buf.frames, x_buf.shape, x_buf.id)
         IN  [x_buf |-> IF train THEN x_buf ELSE mx,
              y_buf |-> IF train THEN y_buf ELSE my,
              out   |-> Outcome("ok", y_buf, 0)]

\* the loops of Backward read y_buf at every node and frame of dx_buf
ReadInBounds(y_buf, dx_buf) ==
    /\ y_buf # EmptyBuffer
    /\ GetShapeSize(y_buf.shape) >= GetShapeSize(dx_buf.shape)
    /\ y_buf.frames >= dx_buf.frames

\* ReLU::Backward: the set of the ways the call can end.  dx_buf is sized from
\* dy_buf; the saved buffers are taken and the members emptied; nothing tests
\* that a buffer was saved, and a read outside y_buf is undefined: the run
\* crashes or returns a gradient computed from whatever it read
ReLU_BackwardBody(dy_buf, binary_mode, mx, my) ==
    IF binary_mode THEN { Binarize_Backward(dy_buf, mx, my) }
    ELSE IF dy_buf.type # "fp32"
    THEN { [x_buf |-> mx, y_buf |-> my, out |-> Outcome("assert", EmptyBuffer, 0)] }
    ELSE LET dx_buf == NewBuffer(dy_buf.type, dy_buf.frames, dy_buf.shape, dy_buf.id)
         IN  IF ReadInBounds(my, dx_buf)
             THEN { [x_buf |-> EmptyBuffer, y_buf |-> EmptyBuffer,
                     out |-> Outcome("ok", dx_buf, my.id)] }
             ELSE { [x_buf |-> EmptyBuffer, y_buf |-> EmptyBuffer, out |-> o] :
                      o \in { Outcome("crash", EmptyBuffer, 0),
                              Outcome("ok", dx_buf, 0) } }

\* the sub-layers of SparseLutN (bb/StochasticLutN.h,
\* bb/StochasticBatchNormalization.h, bb/HardTanh.h, not among the sources), by
\* the layer contract: Forward saves its input in training mode and drops what
\* was saved otherwise; ReForward computes again from a given input and keeps
\* it; Backward refuses without a saved input, and consumes it.  The contents
\* a sub-layer computes are a number that tells the sub-layer and the contents
\* it computed from: the same sub-layer gives the same output for the same
\* input, and different sub-layers or inputs give different outputs.
SubIndex(sub) ==
    CASE sub = "m_lut" -> 1 [] sub = "m_batch_norm" -> 2 [] sub = "m_activation" -> 3

Computed(sub, x_buf) == [x_buf EXCEPT !.id = 4 * x_buf.id + SubIndex(sub)]

Layer_Forward(sub, cache, x_buf, train) ==
    [cache |-> IF train THEN x_buf ELSE EmptyBuffer, out |-> Computed(sub, x_buf)]

Layer_ReForward(sub, x_buf) ==
    [cache |-> x_buf,
     out   |-> IF x_buf = EmptyBuffer THEN EmptyBuffer ELSE Computed(sub, x_buf)]

Layer_Backward(sub, cache, dy_buf) ==
    IF cache = EmptyBuffer \/ dy_buf = EmptyBuffer
    THEN [cache |-> cache, out |-> Outcome("error", EmptyBuffer, 0)]
    ELSE [cache |-> EmptyBuffer,
          out |-> Outcome("ok",
                          NewBuffer(dy_buf.type, cache.frames, cache.shape,
                                    4 * (64 * dy_buf.id + cache.id) + SubIndex(sub)),
                          cache.id)]

\* m_batch_norm->SetFrameBufferX(FrameBuffer()), m_activation->SetFrameBufferX(x)
SetFrameBufferX(sub, cache, x_buf) ==
    SubCall(sub, "SetFrameBufferX", x_buf, FALSE, <<>>, cache)

\* SparseLutN::Forward that keeps every saved input
SparseLutN_ForwardBody_KeepAll(x_buf, train, memory_saving, c) ==
    LET l == Layer_Forward("m_lut", c.m_lut, x_buf, train)
        b == Layer_Forward("m_batch_norm", c.m_batch_norm, l.out, train)
        a == Layer_Forward("m_activation", c.m_activation, b.out, train)
    IN  [subs  |-> [m_lut |-> l.cache, m_batch_norm |-> b.cache,
                    m_activation |-> a.cache],
         out   |-> Outcome("ok", a.out, 0),
         calls |-> << SubCall("m_lut", "Forward", x_buf, train, l.out, c.m_lut),
                      SubCall("m_batch_norm", "Forward", l.out, train, b.out, c.m_batch_norm),
                      SubCall("m_activation", "Forward", b.out, train, a.out, c.m_activation) >>]

\* SparseLutN::Forward over the saved inputs c of the three sub-layers: the
\* sub-layers after the call, what it returned, and the calls it made, each
\* with the saved input of the sub-layer when it was called
SparseLutN_ForwardBody(x_buf, train, memory_saving, c) ==
    LET l == Layer_Forward("m_lut", c.m_lut, x_buf, train)
        b == Layer_Forward("m_batch_norm", c.m_batch_norm, l.out, train)
        a == Layer_Forward("m_activation", c.m_activation, b.out, train)
        drop == memory_saving \/ ~train
    IN  [subs  |-> [m_lut        |-> l.cache,
                    m_batch_norm |-> IF drop THEN EmptyBuffer ELSE b.cache,
                    m_activation |-> IF drop THEN EmptyBuffer ELSE a.cache],
         out   |-> Outcome("ok", a.out, 0),
         calls |-> << SubCall("m_lut", "Forward", x_buf, train, l.out, c.m_lut),
                      SubCall("m_batch_norm", "Forward", l.out, train, b.out, c.m_batch_norm) >>
                   \o (IF drop THEN <<SetFrameBufferX("m_batch_norm", b.cache, EmptyBuffer)>>
                       ELSE <<>>)
                   \o << SubCall("m_activation", "Forward", b.out, train, a.out, c.m_activation) >>
                   \o (IF drop THEN <<SetFrameBufferX("m_activation", a.cache, EmptyBuffer)>>
                       ELSE <<>>)]

\* the three Backward calls of SparseLutN::Backward over the saved inputs c1,
\* last sub-layer first, the first refusal ending the call
BackwardChain(dy_buf, c1) ==
    LET a == Layer_Backward("m_activation", c1.m_activation, dy_buf)
        b == Layer_Backward("m_batch_norm", c1.m_batch_norm, a.out.buf)
        l == Layer_Backward("m_lut", c1.m_lut, b.out.buf)
        ca == SubCall("m_activation", "Backward", dy_buf, FALSE, a.out, c1.m_activation)
        cb == SubCall("m_batch_norm", "Backward", a.out.buf, FALSE, b.out, c1.m_batch_norm)
        cl == SubCall("m_lut", "Backward", b.out.buf, FALSE, l.out, c1.m_lut)
    IN  IF a.out.status # "ok"
        THEN [subs |-> c1, out |-> a.out, calls |-> <<ca>>]
        ELSE IF b.out.status # "ok"
        THEN [subs |-> [c1 EXCEPT !.m_activation = a.cache], out |-> b.out,
              calls |-> <<ca, cb>>]
        ELSE [subs |-> [m_lut |-> l.cache, m_batch_norm |-> b.cache,
                        m_activation |-> a.cache],
              out  |-> l.out, calls |-> <<ca, cb, cl>>]

\* SparseLutN::Backward that never computes the saved inputs again
SparseLutN_BackwardBody_NoRecompute(dy_buf, memory_saving, c) ==
    BackwardChain(dy_buf, c)

\* SparseLutN::Backward that gives the activation the output of the LUT
SparseLutN_BackwardBody_SkipBatchNorm(dy_buf, memory_saving, c) ==
    IF memory_saving
    THEN LET l == Layer_ReForward("m_lut", c.m_lut)
             b == Layer_ReForward("m_batch_norm", l.out)
             c1 == [m_lut |-> l.cache, m_batch_norm |-> b.cache,
                    m_activation |-> l.out]
             r == BackwardChain(dy_buf, c1)
         IN  [r EXCEPT !.calls =
                 << SubCall("m_lut", "ReForward", c.m_lut, FALSE, l.out, c.m_lut),
                    SubCall("m_batch_norm", "ReForward", l.out, FALSE, b.out, c.m_batch_norm),
                    SetFrameBufferX("m_activation", c.m_activation, l.out) >> \o @]
    ELSE BackwardChain(dy_buf, c)

\* SparseLutN::Backward: with memory saving the inputs of m_batch_norm and
\* m_activation are computed again from the one m_lut kept; then the three
\* Backward calls
SparseLutN_BackwardBody(dy_buf, memory_saving, c) ==
    IF memory_saving
    THEN LET l == Layer_ReForward("m_lut", c.m_lut)
             b == Layer_ReForward("m_batch_norm", l.out)
             c1 == [m_lut |-> l.cache, m_batch_norm |-> b.cache,
                    m_activation |-> b.out]
             r == BackwardChain(dy_buf, c1)
         IN  [r EXCEPT !.calls =
                 << SubCall("m_lut", "ReForward", c.m_lut, FALSE, l.out, c.m_lut),
                    SubCall("m_batch_norm", "ReForward", l.out, FALSE, b.out, c.m_batch_norm),
                    SetFrameBufferX("m_activation", c.m_activation, b.out) >> \o @]
    ELSE BackwardChain(dy_buf, c)

\* what a Backward can refer to after a Forward that returned
Forwarded(hist, x_buf, train) ==
    [last_fwd |-> x_buf, last_train |-> IF train THEN x_buf ELSE hist.last_train]

ReLU_Forward(x_buf, train) ==
    /\ comp_op.layer = "ReLU"
    /\ LET r == ReLU_ForwardBody(x_buf, train, m_binary_mode, m_x_buf, m_y_buf)
       IN  /\ m_x_buf' = r.x_buf
           /\ m_y_buf' = r.y_buf
           /\ returned' = r.out
           /\ fwd_hist' = IF r.out.status = "ok"
                          THEN Forwarded(fwd_hist, x_buf, train) ELSE fwd_hist
           /\ fwd_mode' = IF r.out.status = "ok"
                          THEN [train |-> train, mode |-> m_binary_mode] ELSE fwd_mode
    /\ comp_op' = CompOp("ReLU", "Forward", <<x_buf, train>>, <<>>)
    /\ UNCHANGED <<sparseVars, seqVars, archive, T, net, m_bn_enable, m_memory_saving, m_training,
                   modVars, m_binary_mode, m_host_only, sub_x_buf, sub_shape, sub_calls>>

ReLU_Backward(dy_buf) ==
    /\ comp_op.layer = "ReLU"
    /\ \E r \in ReLU_BackwardBody(dy_buf, m_binary_mode, m_x_buf, m_y_buf) :
           /\ m_x_buf' = r.x_buf
           /\ m_y_buf' = r.y_buf
           /\ returned' = r.out
           /\ fwd_hist' = IF r.out.status = "assert" THEN fwd_hist ELSE NoHistory
    /\ fwd_mode' = IF returned'.status = "assert" THEN fwd_mode ELSE NoForward
    /\ comp_op' = CompOp("ReLU", "Backward", <<dy_buf>>, <<>>)
    /\ UNCHANGED <<sparseVars, seqVars, archive, T, net, m_bn_enable, m_memory_saving, m_training,
                   modVars, m_binary_mode, m_host_only, sub_x_buf, sub_shape, sub_calls>>

SparseLutN_Forward(x_buf, train) ==
    /\ comp_op.layer = "SparseLutN"
    /\ LET r == SparseLutN_ForwardBody(x_buf, train, m_memory_saving, sub_x_buf)
       IN  /\ sub_x_buf' = r.subs
           /\ returned' = r.out
           /\ sub_calls' = r.calls
    /\ fwd_hist' = Forwarded(fwd_hist, x_buf, train)
    /\ fwd_mode' = [train |-> train, mode |-> m_memory_saving]
    /\ comp_op' = CompOp("SparseLutN", "Forward", <<x_buf, train>>, <<>>)
    /\ UNCHANGED <<sparseVars, seqVars, archive, T, net, m_bn_enable, m_memory_saving, m_training,
                   modVars, reluVars, sub_shape>>

SparseLutN_Backward(dy_buf) ==
    /\ comp_op.layer = "SparseLutN"
    /\ LET r == SparseLutN_BackwardBody(dy_buf, m_memory_saving, sub_x_buf)
       IN  /\ sub_x_buf' = r.subs
           /\ returned' = r.out
           /\ sub_calls' = r.calls
    /\ fwd_hist' = NoHistory
    /\ fwd_mode' = NoForward
    /\ comp_op' = CompOp("SparseLutN", "Backward", <<dy_buf>>, <<>>)
    /\ UNCHANGED <<sparseVars, seqVars, archive, T, net, m_bn_enable, m_memory_saving, m_training,
                   modVars, reluVars, sub_shape>>

\* the layer under test, ReLU or SparseLutN, as constructed and with the mode
\* its commands have set
CacheInit ==
    /\ comp_op \in { CompOp(c, "new", <<>>, <<>>) : c \in {"ReLU", "SparseLutN"} }
    /\ m_binary_mode \in BOOLEAN /\ m_memory_saving \in BOOLEAN
    /\ (comp_op.layer = "ReLU" => m_memory_saving)
    /\ (comp_op.layer = "SparseLutN" => ~m_binary_mode)
    /\ m_host_only = FALSE
    /\ m_x_buf = EmptyBuffer /\ m_y_buf = EmptyBuffer
    /\ sub_x_buf = NoSubBuffers /\ sub_shape = <<>> /\ sub_calls = <<>>
    /\ returned = <<>> /\ fwd_hist = NoHistory /\ archive = NoArchive /\ fwd_mode = NoForward /\ net = NoNet /\ T = "fp32"
    /\ m_bn_enable = TRUE /\ m_training = TRUE
    /\ m_training_create = DefaultCreate /\ m_inference_create = DefaultCreate
    /\ m_real2bin = DefaultCreate /\ m_bin2real = [modulation_size |-> 1]
    /\ input_shape = <<>> /\ output_shape = <<>> /\ fanin = 0 /\ argv = <<>>
    /\ seed = 0 /\ status = "idle" /\ table = <<>> /\ setCalls = 0
    /\ gauss = NoGauss /\ prevRun = NoRun
    /\ m_layers = <<>> /\ seq_calls = <<>> /\ seq_result = <<>> /\ seq_op = <<>>

CacheNext ==
    \/ \E x_buf \in FrameBuffers, train \in BOOLEAN : ReLU_Forward(x_buf, train)
    \/ \E dy_buf \in FrameBuffers : ReLU_Backward(dy_buf)
    \/ \E x_buf \in FrameBuffers, train \in BOOLEAN : SparseLutN_Forward(x_buf, train)
    \/ \E dy_buf \in FrameBuffers : SparseLutN_Backward(dy_buf)

SpecCache == CacheInit /\ [][CacheNext]_vars

-----------------------------------------------------------------------------
(* Properties of Forward and Backward *)

CachingLayers == {"ReLU", "SparseLutN"}

BackwardStep ==
    comp_op'.layer \in CachingLayers /\ comp_op'.op = "Backward"

\* C17: a Backward of ReLU or SparseLutN (either memory-saving setting) that
\* no training-mode Forward precedes (the layer was never forwarded, was
\* forwarded only with train = false, or its saved state was consumed by an
\* earlier Backward) does not return a gradient: it fails.
C17_BackwardWithoutForwardFails ==
    [][(BackwardStep /\ fwd_hist.last_train = EmptyBuffer)
          => returned'.status # "ok"]_vars

\* C18: a Backward that returns a gradient computed it against what the
\* latest Forward saved, never against what an earlier Forward saved.
C18_ForwardInvalidatesCache ==
    [][(BackwardStep /\ returned'.status = "ok" /\ returned'.used # 0
        /\ fwd_hist.last_fwd # EmptyBuffer)
          => returned'.used = fwd_hist.last_fwd.id]_vars

SameFrames(a, b) == a.frames = b.frames /\ a.shape = b.shape

-----------------------------------------------------------------------------
(* SetInputShape of the composites.  A sub-layer is [create, input, output, *)
(* runs]: the output shape it was created with (<<>>: none, it keeps the    *)
(* shape it is given), the shapes its last SetInputShape took and returned, *)
(* and the number of SetInputShape calls it has run.                        *)

NodeShapes == Shapes1(MaxExtent) \cup { <<1, MaxExtent>> }

SubLayer(create) == [create |-> create, input |-> <<>>, output |-> <<>>, runs |-> 0]

\* SetInputShape of a sub-layer (StochasticLutN, StochasticBatchNormalization,
\* HardTanh, RealToBinary, BinaryToReal and the inner layer are not among the
\* sources): it starts over from the shape given and returns its output shape
Layer_SetInputShape(sub, shape) ==
    [create |-> sub.create, input |-> shape,
     output |-> IF sub.create = <<>> THEN shape ELSE sub.create,
     runs   |-> sub.runs + 1]

\* shape = a->SetInputShape(shape); shape = b->SetInputShape(shape); ... :
\* the calls made on the sub-layers subs, in order
ChainCalls(subs, shapes, shape) ==
    LET after[k \in 1..Len(subs)] ==
            Layer_SetInputShape(shapes[subs[k]],
                                IF k = 1 THEN shape ELSE after[k - 1].output)
    IN  [k \in 1..Len(subs) |->
            SubCall(subs[k], "SetInputShape", after[k].input, FALSE,
                    after[k].output, <<>>)]

\* SparseLutN::SetInputShape without the call on m_batch_norm
SparseLutN_SetInputShapeCalls_NoBatchNorm(shapes, shape) ==
    ChainCalls(<<"m_lut", "m_activation">>, shapes, shape)

SparseLutN_SetInputShapeCalls(shapes, shape) ==
    ChainCalls(<<"m_lut", "m_batch_norm", "m_activation">>, shapes, shape)

StochasticLut_SetInputShapeCalls(shapes, shape) ==
    ChainCalls(<<"m_lut", "m_batch_norm">>, shapes, shape)

BinaryModulation_SetInputShapeCalls(shapes, shape) ==
    ChainCalls(<<"m_real2bin", "m_layer", "m_bin2real">>, shapes, shape)

\* the sub-layers after the calls: each one called has run its SetInputShape
AfterCalls(shapes, calls) ==
    [n \in DOMAIN shapes |->
        IF \E k \in 1..Len(calls) : calls[k].layer = n
        THEN LET k == CHOOSE k \in 1..Len(calls) : calls[k].layer = n
             IN  Layer_SetInputShape(shapes[n], calls[k].arg)
        ELSE shapes[n]]

\* return shape; : the result of the last call
LastResult(calls) == calls[Len(calls)].ret

GetInputShape(c, shapes) ==
    CASE c = "SparseLutN"       -> shapes["m_lut"].input
      [] c = "StochasticLut"    -> shapes["m_lut"].input
      [] c = "BinaryModulation" -> shapes["m_real2bin"].input

GetOutputShape(c, shapes) ==
    CASE c = "SparseLutN"       -> shapes["m_activation"].output
      [] c = "StochasticLut"    -> shapes["m_lut"].output
      [] c = "BinaryModulation" -> shapes["m_bin2real"].output

Composite_SetInputShape(c, calls, shape) ==
    /\ comp_op.layer = c
    /\ \A n \in DOMAIN sub_shape : sub_shape[n].runs < MaxRuns
    /\ sub_calls' = calls
    /\ sub_shape' = AfterCalls(sub_shape, calls)
    /\ returned' = LastResult(calls)
    /\ comp_op' = CompOp(c, "SetInputShape", <<shape>>, <<>>)
    /\ UNCHANGED <<sparseVars, seqVars, archive, T, fwd_mode, net, m_bn_enable, m_memory_saving, m_training,
                   modVars, reluVars, sub_x_buf, fwd_hist>>

SparseLutN_SetInputShape(shape) ==
    Composite_SetInputShape("SparseLutN",
                            SparseLutN_SetInputShapeCalls(sub_shape, shape), shape)

StochasticLut_SetInputShape(shape) ==
    Composite_SetInputShape("StochasticLut",
                            StochasticLut_SetInputShapeCalls(sub_shape, shape), shape)

BinaryModulation_SetInputShape(shape) ==
    Composite_SetInputShape("BinaryModulation",
                            BinaryModulation_SetInputShapeCalls(sub_shape, shape), shape)

\* the sub-layers of each composite as its constructor creates them
Constructed(c) ==
    CASE c = "SparseLutN" ->
           { [m_lut |-> SubLayer(o), m_batch_norm |-> SubLayer(<<>>),
              m_activation |-> SubLayer(<<>>)] : o \in NodeShapes }
      [] c = "StochasticLut" ->
           { [m_lut |-> SubLayer(o), m_batch_norm |-> SubLayer(<<>>)] :
               o \in NodeShapes }
      [] c = "BinaryModulation" ->
           { [m_real2bin |-> SubLayer(<<>>), m_layer |-> SubLayer(l),
              m_bin2real |-> SubLayer(o)] :
               l \in NodeShapes \cup {<<>>}, o \in NodeShapes \cup {<<>>} }

ShapeInit ==
    /\ comp_op \in { CompOp(c, "new", <<>>, <<>>) : c \in Composites }
    /\ sub_shape \in Constructed(comp_op.layer)
    /\ sub_calls = <<>> /\ returned = <<>> /\ fwd_hist = NoHistory /\ archive = NoArchive /\ fwd_mode = NoForward /\ net = NoNet /\ T = "fp32"
    /\ m_bn_enable = TRUE /\ m_memory_saving = TRUE /\ m_training = TRUE
    /\ m_training_create = DefaultCreate /\ m_inference_create = DefaultCreate
    /\ m_real2bin = DefaultCreate /\ m_bin2real = [modulation_size |-> 1]
    /\ m_binary_mode = FALSE /\ m_host_only = FALSE
    /\ m_x_buf = EmptyBuffer /\ m_y_buf = EmptyBuffer
    /\ sub_x_buf = NoSubBuffers
    /\ input_shape = <<>> /\ output_shape = <<>> /\ fanin = 0 /\ argv = <<>>
    /\ seed = 0 /\ status = "idle" /\ table = <<>> /\ setCalls = 0
    /\ gauss = NoGauss /\ prevRun = NoRun
    /\ m_layers = <<>> /\ seq_calls = <<>> /\ seq_result = <<>> /\ seq_op = <<>>

ShapeNext ==
    \/ \E shape \in NodeShapes : SparseLutN_SetInputShape(shape)
    \/ \E shape \in NodeShapes : StochasticLut_SetInputShape(shape)
    \/ \E shape \in NodeShapes : BinaryModulation_SetInputShape(shape)

SpecShape == ShapeInit /\ [][ShapeNext]_vars

SetInputShapeStep == comp_op'.op = "SetInputShape"

\* C20: a SetInputShape(s) of SparseLutN, StochasticLut or BinaryModulation
\* calls SetInputShape on each sub-layer once, in construction order, the
\* first with s and each next one with the shape the one before returned, and
\* returns what the last returned; afterwards GetInputShape() is s and
\* GetOutputShape() is the shape returned; and when the call before was
\* SetInputShape(s) too, it returns the same shape again, every sub-layer
\* having run its SetInputShape once more.
C20_SetInputShapeChains ==
    [][SetInputShapeStep =>
        LET c == comp_op'.layer
            s == comp_op'.args[1]
            subs == Children(c)
        IN  /\ Len(sub_calls') = Len(subs)
            /\ \A k \in 1..Len(subs) :
                  /\ sub_calls'[k].layer = subs[k]
                  /\ sub_calls'[k].op = "SetInputShape"
                  /\ sub_calls'[k].arg = IF k = 1 THEN s ELSE sub_calls'[k - 1].ret
                  /\ sub_shape'[subs[k]].runs = sub_shape[subs[k]].runs + 1
            /\ returned' = sub_calls'[Len(subs)].ret
            /\ GetInputShape(c, sub_shape') = s
            /\ GetOutputShape(c, sub_shape') = returned'
            /\ (comp_op.op = "SetInputShape" /\ comp_op.args = comp_op'.args)
                  => returned' = returned]_vars

\* SetInputShape(s) called twice on a BinaryModulation whose inner layer and
\* reducer keep the shape: both calls returned s
C20_Witness ==
    /\ comp_op.layer = "BinaryModulation" /\ comp_op.op = "SetInputShape"
    /\ \A n \in DOMAIN sub_shape : sub_shape[n].runs = 2
    /\ sub_calls[1].arg = sub_calls[2].arg /\ sub_calls[3].ret = <<1, MaxExtent>>
    /\ returned = comp_op.args[1]

-----------------------------------------------------------------------------
(* Memory saving of SparseLutN *)

\* the positions in the call sequence where `sub` was called with `op`
CallsOf(calls, sub, op) ==
    { k \in 1..Len(calls) : calls[k].layer = sub /\ calls[k].op = op }

\* the call right after the Forward of `sub` empties the saved input of `sub`
EmptiedAfterForward(calls, sub) ==
    \A k \in CallsOf(calls, sub, "Forward") :
        /\ k < Len(calls)
        /\ calls[k + 1].layer = sub /\ calls[k + 1].op = "SetFrameBufferX"
        /\ calls[k + 1].arg = EmptyBuffer

\* C21: after SparseLutN::Forward(x, train = true) with memory saving, the
\* batch normalisation and the activation hold no saved input, each emptied by
\* the call right after its own Forward, and the LUT holds x; without memory
\* saving the three sub-layers hold the inputs they were given.
C21_MemorySavingDropsIntermediates ==
    (comp_op.layer = "SparseLutN" /\ comp_op.op = "Forward" /\ comp_op.args[2])
    => LET x_buf == comp_op.args[1]
           l_out == Computed("m_lut", x_buf)
           b_out == Computed("m_batch_norm", l_out)
       IN  /\ sub_x_buf.m_lut = x_buf
           /\ m_memory_saving
                => /\ sub_x_buf.m_batch_norm = EmptyBuffer
                   /\ sub_x_buf.m_activation = EmptyBuffer
                   /\ EmptiedAfterForward(sub_calls, "m_batch_norm")
                   /\ EmptiedAfterForward(sub_calls, "m_activation")
           /\ ~m_memory_saving
                => /\ sub_x_buf.m_batch_norm = l_out
                   /\ sub_x_buf.m_activation = b_out
                   /\ \A k \in 1..Len(sub_calls) : sub_calls[k].op = "Forward"

C21_Witness ==
    /\ comp_op.layer = "SparseLutN" /\ comp_op.op = "Forward" /\ comp_op.args[2]
    /\ m_memory_saving
    /\ Len(sub_calls) = 5
    /\ sub_x_buf.m_lut.id = MaxBuf /\ sub_x_buf.m_activation = EmptyBuffer

\* the sub-layers and operations of a call sequence, in order
CallOrder(calls) == [k \in 1..Len(calls) |-> <<calls[k].layer, calls[k].op>>]

IsPrefixOf(p, q) == Len(p) <= Len(q) /\ p = SubSeq(q, 1, Len(p))

\* C22: SparseLutN::Backward with memory saving first calls ReForward of the
\* LUT on the LUT's saved input, then ReForward of the batch normalisation on
\* that result, then gives that result to the activation as its saved input;
\* the Backward calls come after these, in the order activation, batch
\* normalisation, LUT; and when the Backward follows Forward(x, train = true),
\* all three run, each on the input its sub-layer was given by that Forward.
C22_RecomputeBeforeBackward ==
    [][(comp_op'.layer = "SparseLutN" /\ comp_op'.op = "Backward" /\ m_memory_saving)
        => LET calls == sub_calls'
               rest  == SubSeq(calls, 4, Len(calls))
           IN  /\ Len(calls) >= 4
               /\ CallOrder(SubSeq(calls, 1, 3))
                    = << <<"m_lut", "ReForward">>, <<"m_batch_norm", "ReForward">>,
                         <<"m_activation", "SetFrameBufferX">> >>
               /\ calls[1].arg = sub_x_buf.m_lut
               /\ calls[2].arg = calls[1].ret
               /\ calls[3].arg = calls[2].ret
               /\ IsPrefixOf(CallOrder(rest),
                             << <<"m_activation", "Backward">>,
                                <<"m_batch_norm", "Backward">>,
                                <<"m_lut", "Backward">> >>)
               /\ (comp_op.op = "Forward" /\ comp_op.args[2])
                    => LET x_buf == comp_op.args[1]
                           l_out == Computed("m_lut", x_buf)
                           b_out == Computed("m_batch_norm", l_out)
                       IN  /\ Len(calls) = 6
                           /\ calls[4].cfg = b_out
                           /\ calls[5].cfg = l_out
                           /\ calls[6].cfg = x_buf
                           /\ returned'.status = "ok"]_vars

C22_Witness ==
    /\ comp_op.layer = "SparseLutN" /\ comp_op.op = "Backward" /\ m_memory_saving
    /\ Len(sub_calls) = 6 /\ returned.status = "ok"
    /\ sub_calls[6].cfg.id = MaxBuf /\ sub_calls[4].cfg.id = 4 * (4 * MaxBuf + 1) + 2

\* the Backward calls of a call sequence: for each, the gradient it was given,
\* the saved input it ran on and the gradient it returned
BackwardCalls(calls) == SelectSeq(calls, LAMBDA call : call.op = "Backward")

\* Forward(x, train = true) then Backward(dy) on a SparseLutN as constructed,
\* under the given memory-saving setting
ForwardBackward(x_buf, dy_buf, memory_saving) ==
    SparseLutN_BackwardBody(dy_buf, memory_saving,
        SparseLutN_ForwardBody(x_buf, TRUE, memory_saving, NoSubBuffers).subs)

\* C23: a Backward(dy) of SparseLutN that follows Forward(x, train = true)
\* returns the gradient, and runs the sub-layers' Backward on the saved inputs
\* and gradients, that the other memory-saving setting gives for the same x
\* and dy; with memory saving, what ReForward computes again is what the
\* Forward calls of the LUT and the batch normalisation returned.
C23_MemorySavingSameGradient ==
    [][(comp_op'.layer = "SparseLutN" /\ comp_op'.op = "Backward"
        /\ comp_op.op = "Forward" /\ comp_op.args[2])
        => LET other == ForwardBackward(comp_op.args[1], comp_op'.args[1],
                                        ~m_memory_saving)
           IN  /\ returned' = other.out
               /\ BackwardCalls(sub_calls') = BackwardCalls(other.calls)
               /\ m_memory_saving
                    => /\ sub_calls'[1].ret = sub_calls[1].ret
                       /\ sub_calls'[2].ret = sub_calls[2].ret]_vars

C23_Witness ==
    /\ comp_op.layer = "SparseLutN" /\ comp_op.op = "Backward" /\ m_memory_saving
    /\ Len(BackwardCalls(sub_calls)) = 3 /\ returned.status = "ok"
    /\ returned.buf.frames = 2 /\ returned.used = 1 /\ comp_op.args[1].id = MaxBuf

-----------------------------------------------------------------------------
(* Save and Load.  What a Save writes is a sequence of entries, one for     *)
(* each object handed to the stream or archive: [writer, tag, ok].  writer  *)
(* is the node that wrote it; tag is the name of the object in the JSON     *)
(* archive ("" in the byte stream, which has no names); ok is FALSE once    *)
(* the bytes are malformed.                                                 *)

Formats == {"stream", "json"}

Entry(writer, tag, ok) == [writer |-> writer, tag |-> tag, ok |-> ok]

\* Sequential has Save / Load for the JSON archive only; the others for both
Serializable(c, format) == c = "Sequential" => format = "json"

\* the name under which a sub-layer writes itself into the JSON archive (the
\* sub-layers' Save is not among the sources)
LeafTag(format) == IF format = "json" THEN "Layer" ELSE ""

\* Save of a sub-layer: one entry
Layer_Save(sub, format) == << Entry(sub, LeafTag(format), TRUE) >>

\* Load of a sub-layer from the entry it finds (<<>>: the stream has ended):
\* it fails on a missing or malformed entry and on another name than its own
Layer_Load(sub, format, entries, at) ==
    /\ at <= Len(entries)
    /\ entries[at].ok
    /\ entries[at].tag = LeafTag(format)

\* archive(cereal::make_nvp("<class>", *this)): the node's own entry
Composite_Tag(c, format) ==
    IF format = "json" /\ c \in {"BinaryModulation", "SparseLutN", "StochasticLut"}
    THEN << Entry(c, c, TRUE) >>
    ELSE << >>

\* StochasticLut::Save that leaves the batch normalisation out when it is
\* disabled
StochasticLut_SaveSubs_IfEnabled(bn_enable) ==
    IF bn_enable THEN <<"m_lut", "m_batch_norm">> ELSE <<"m_lut">>

\* the sub-layers Save and Load walk, in order
StochasticLut_SaveSubs(bn_enable) == <<"m_lut", "m_batch_norm">>
StochasticLut_LoadSubs(bn_enable) == <<"m_lut", "m_batch_norm">>
SparseLutN_SaveSubs(memory_saving) == <<"m_lut", "m_batch_norm", "m_activation">>
SparseLutN_LoadSubs(memory_saving) == <<"m_lut", "m_batch_norm", "m_activation">>
BinaryModulation_SaveSubs == <<"m_real2bin", "m_layer", "m_bin2real">>
BinaryModulation_LoadSubs == <<"m_real2bin", "m_layer", "m_bin2real">>
Sequential_SaveSubs(layers) == layers
Sequential_LoadSubs(layers) == layers

SaveSubs(c) ==
    CASE c = "StochasticLut"    -> StochasticLut_SaveSubs(m_bn_enable)
      [] c = "SparseLutN"       -> SparseLutN_SaveSubs(m_memory_saving)
      [] c = "BinaryModulation" -> BinaryModulation_SaveSubs
      [] c = "Sequential"       -> Sequential_SaveSubs(m_layers)

LoadSubs(c) ==
    CASE c = "StochasticLut"    -> StochasticLut_LoadSubs(m_bn_enable)
      [] c = "SparseLutN"       -> SparseLutN_LoadSubs(m_memory_saving)
      [] c = "BinaryModulation" -> BinaryModulation_LoadSubs
      [] c = "Sequential"       -> Sequential_LoadSubs(m_layers)

RECURSIVE Concat(_)
Concat(seqs) == IF seqs = <<>> THEN <<>> ELSE Head(seqs) \o Concat(Tail(seqs))

\* Save: the node's own entry (JSON), then each sub-layer's Save
SaveEntries(c, format, subs) ==
    Composite_Tag(c, format) \o Concat([k \in 1..Len(subs) |-> Layer_Save(subs[k], format)])

\* Load that goes on to the next sub-layer after a failure
LoadRun_Through(c, format, subs, entries) ==
    LET own  == Len(Composite_Tag(c, format))
        Good(k) == Layer_Load(subs[k], format, entries, own + k)
    IN  [status |-> IF \A k \in 1..Len(subs) : Good(k) THEN "ok" ELSE "error",
         calls  |-> [k \in 1..Len(subs) |->
                       SubCall(subs[k], "Load",
                               IF own + k <= Len(entries) THEN entries[own + k] ELSE <<>>,
                               FALSE, IF Good(k) THEN "ok" ELSE "error", <<>>)]]

\* Load: the node's own entry is looked up by its name (JSON), then each
\* sub-layer's Load reads the next entry; a failure is an exception, which
\* nothing in these Load functions catches
LoadRun(c, format, subs, entries) ==
    LET own  == Len(Composite_Tag(c, format))
        Good(k) == Layer_Load(subs[k], format, entries, own + k)
        bad  == { k \in 1..Len(subs) : ~Good(k) }
        last == IF bad = {} THEN Len(subs)
                ELSE CHOOSE k \in bad : \A j \in bad : k <= j
        ownGood == own = 0 \/ (/\ Len(entries) >= 1 /\ entries[1].ok
                               /\ entries[1].tag = Composite_Tag(c, format)[1].tag)
    IN  IF ~ownGood THEN [status |-> "error", calls |-> <<>>]
        ELSE [status |-> IF bad = {} THEN "ok" ELSE "error",
              calls  |-> [k \in 1..last |->
                            SubCall(subs[k], "Load",
                                    IF own + k <= Len(entries) THEN entries[own + k]
                                    ELSE <<>>,
                                    FALSE, IF Good(k) THEN "ok" ELSE "error", <<>>)]]

\* the saved entries, with entry `bad` malformed (0: none)
Malformed(entries, bad) ==
    [k \in 1..Len(entries) |-> IF k = bad THEN [entries[k] EXCEPT !.ok = FALSE]
                               ELSE entries[k]]

Save(c, format) ==
    /\ Serializable(c, format)
    /\ archive' = [class |-> c, format |-> format,
                   entries |-> SaveEntries(c, format, SaveSubs(c))]
    /\ sub_calls' = [k \in 1..Len(SaveSubs(c)) |->
                        SubCall(SaveSubs(c)[k], "Save", <<>>, FALSE, <<>>, <<>>)]
    /\ returned' = [status |-> "ok"]
    /\ comp_op' = CompOp(c, "Save", <<format>>, <<>>)
    /\ UNCHANGED <<sparseVars, seqVars, m_bn_enable, m_memory_saving, m_training,
                   modVars, reluVars, sub_x_buf, sub_shape, fwd_hist, T, fwd_mode, net>>

\* Load of the composite that wrote the archive, from what it wrote
Load(c, format, bad) ==
    /\ archive.class = c /\ archive.format = format
    /\ bad \in 0..Len(archive.entries)
    /\ LET r == LoadRun(c, format, LoadSubs(c), Malformed(archive.entries, bad))
       IN  /\ sub_calls' = r.calls
           /\ returned' = [status |-> r.status]
    /\ comp_op' = CompOp(c, "Load", <<format, bad>>, <<>>)
    /\ UNCHANGED <<sparseVars, seqVars, m_bn_enable, m_memory_saving, m_training,
                   modVars, reluVars, sub_x_buf, sub_shape, fwd_hist, archive, T, fwd_mode, net>>

Containers == Composites \cup {"Sequential"}

\* a Sequential of MaxChildren children, named "1", "2", ..., and one of each
\* composite, as constructed
SerInit ==
    /\ m_layers = [i \in 1..MaxChildren |-> ToString(i)]
    /\ m_bn_enable = TRUE /\ m_memory_saving = TRUE /\ m_training = TRUE
    /\ comp_op = CompOp("", "new", <<>>, <<>>)
    /\ sub_calls = <<>> /\ returned = <<>> /\ fwd_hist = NoHistory /\ archive = NoArchive /\ fwd_mode = NoForward /\ net = NoNet /\ T = "fp32"
    /\ m_training_create = DefaultCreate /\ m_inference_create = DefaultCreate
    /\ m_real2bin = DefaultCreate /\ m_bin2real = [modulation_size |-> 1]
    /\ m_binary_mode = FALSE /\ m_host_only = FALSE
    /\ m_x_buf = EmptyBuffer /\ m_y_buf = EmptyBuffer
    /\ sub_x_buf = NoSubBuffers /\ sub_shape = <<>>
    /\ input_shape = <<>> /\ output_shape = <<>> /\ fanin = 0 /\ argv = <<>>
    /\ seed = 0 /\ status = "idle" /\ table = <<>> /\ setCalls = 0
    /\ gauss = NoGauss /\ prevRun = NoRun
    /\ seq_calls = <<>> /\ seq_result = <<>> /\ seq_op = <<>>

SerNext ==
    \/ \E c \in Containers, format \in Formats : Save(c, format)
    \/ \E c \in Containers, format \in Formats, bad \in 0..(MaxChildren + 2) :
          Load(c, format, bad)
    \/ \E args \in Commands, send_to \in Targets : StochasticLut_SendCommand(args, send_to)
    \/ \E args \in Commands, send_to \in Targets : SparseLutN_SendCommand(args, send_to)

SpecSer == SerInit /\ [][SerNext]_vars

-----------------------------------------------------------------------------
(* Properties of Save and Load *)

\* C24: in every state, whatever the flags, Save and Load of each composite
\* walk the same sub-layers, those of the construction, in the same order;
\* and a Load of what the composite's Save wrote succeeds with every
\* sub-layer reading the entry that this sub-layer wrote.
C24_SaveLoadSameOrder ==
    /\ \A c \in Containers :
          /\ SaveSubs(c) = Children(c)
          /\ LoadSubs(c) = Children(c)
    /\ (comp_op.op = "Load" /\ comp_op.args[2] = 0)
          => /\ returned.status = "ok"
             /\ Len(sub_calls) = Len(Children(comp_op.layer))
             /\ \A k \in 1..Len(sub_calls) :
                   /\ sub_calls[k].layer = Children(comp_op.layer)[k]
                   /\ sub_calls[k].arg.writer = sub_calls[k].layer

\* a StochasticLut with the batch normalisation disabled has loaded what it
\* saved to a byte stream
C24_Witness ==
    /\ comp_op.layer = "StochasticLut" /\ comp_op.op = "Load"
    /\ comp_op.args = <<"stream", 0>>
    /\ ~m_bn_enable
    /\ returned.status = "ok" /\ Len(sub_calls) = 2

\* C25: what a Sequential, a BinaryModulation, a SparseLutN or a
\* StochasticLut saves to a JSON archive starts with an object named by the
\* node's own class, ahead of everything its children write.
C25_OwnTagFirst ==
    archive.format = "json"
    => /\ Len(archive.entries) = 1 + Len(Children(archive.class))
       /\ archive.entries[1].tag = archive.class

-----------------------------------------------------------------------------
(* ForwardNode, the evaluation of one node, beside the bulk Forward *)

\* the input vectors handed to ForwardNode: up to MaxN + 1 values
NodeVectors == UNION { [1..n -> 0..1] : n \in 0..(MaxN + 1) }

RECURSIVE VectorId(_)
VectorId(x_vec) ==
    IF x_vec = <<>> THEN 1 ELSE 3 * VectorId(Tail(x_vec)) + Head(x_vec)

\* ForwardNode of a sub-layer (not among the sources): a vector of one value
\* that tells the sub-layer, the node and the vector it was computed from
Layer_ForwardNode(sub, node, x_vec) ==
    << 4 * (2 * VectorId(x_vec) + node) + SubIndex(sub) >>

NodeCall(sub, node, x_vec) ==
    SubCall(sub, "ForwardNode", <<node, x_vec>>, FALSE,
            Layer_ForwardNode(sub, node, x_vec), <<>>)

\* StochasticLut::ForwardNode that always runs the batch normalisation
StochasticLut_ForwardNodeBody_AlwaysBatchNorm(node, x_vec, input_size, bn_enable) ==
    IF input_size # Len(x_vec)
    THEN [out |-> [status |-> "assert", vec |-> <<>>], calls |-> <<>>]
    ELSE LET l == Layer_ForwardNode("m_lut", node, x_vec)
             b == Layer_ForwardNode("m_batch_norm", node, l)
         IN  [out   |-> [status |-> "ok", vec |-> b],
              calls |-> << NodeCall("m_lut", node, x_vec),
                           NodeCall("m_batch_norm", node, l) >>]

StochasticLut_ForwardNodeBody(node, x_vec, input_size, bn_enable) ==
    IF input_size # Len(x_vec)
    THEN [out |-> [status |-> "assert", vec |-> <<>>], calls |-> <<>>]
    ELSE LET l == Layer_ForwardNode("m_lut", node, x_vec)
             b == Layer_ForwardNode("m_batch_norm", node, l)
         IN  [out   |-> [status |-> "ok", vec |-> IF bn_enable THEN b ELSE l],
              calls |-> << NodeCall("m_lut", node, x_vec) >>
                        \o (IF bn_enable THEN << NodeCall("m_batch_norm", node, l) >>
                            ELSE << >>)]

SparseLutN_ForwardNodeBody(node, x_vec, input_size) ==
    IF input_size # Len(x_vec)
    THEN [out |-> [status |-> "assert", vec |-> <<>>], calls |-> <<>>]
    ELSE LET l == Layer_ForwardNode("m_lut", node, x_vec)
             b == Layer_ForwardNode("m_batch_norm", node, l)
             a == Layer_ForwardNode("m_activation", node, b)
         IN  [out   |-> [status |-> "ok", vec |-> a],
              calls |-> << NodeCall("m_lut", node, x_vec),
                           NodeCall("m_batch_norm", node, l),
                           NodeCall("m_activation", node, b) >>]

\* StochasticLut::Forward over the saved inputs c of its sub-layers
StochasticLut_ForwardBody(x_buf, train, bn_enable, c) ==
    LET l == Layer_Forward("m_lut", c.m_lut, x_buf, train)
        b == Layer_Forward("m_batch_norm", c.m_batch_norm, l.out, train)
    IN  [subs  |-> [c EXCEPT !.m_lut = l.cache,
                             !.m_batch_norm = IF bn_enable THEN b.cache ELSE @],
         out   |-> Outcome("ok", IF bn_enable THEN b.out ELSE l.out, 0),
         calls |-> << SubCall("m_lut", "Forward", x_buf, train, l.out, c.m_lut) >>
                   \o (IF bn_enable
                       THEN << SubCall("m_batch_norm", "Forward", l.out, train, b.out,
                                       c.m_batch_norm) >>
                       ELSE << >>)]

StochasticLut_ForwardNode(node, x_vec) ==
    /\ comp_op.layer = "StochasticLut"
    /\ LET r == StochasticLut_ForwardNodeBody(node, x_vec, fanin, m_bn_enable)
       IN  /\ sub_calls' = r.calls
           /\ returned' = r.out
    /\ comp_op' = CompOp("StochasticLut", "ForwardNode", <<node, x_vec>>, <<>>)
    /\ UNCHANGED <<sparseVars, seqVars, archive, T, fwd_mode, net, m_bn_enable, m_memory_saving, m_training,
                   modVars, reluVars, sub_x_buf, sub_shape, fwd_hist>>

SparseLutN_ForwardNode(node, x_vec) ==
    /\ comp_op.layer = "SparseLutN"
    /\ LET r == SparseLutN_ForwardNodeBody(node, x_vec, fanin)
       IN  /\ sub_calls' = r.calls
           /\ returned' = r.out
    /\ comp_op' = CompOp("SparseLutN", "ForwardNode", <<node, x_vec>>, <<>>)
    /\ UNCHANGED <<sparseVars, seqVars, archive, T, fwd_mode, net, m_bn_enable, m_memory_saving, m_training,
                   modVars, reluVars, sub_x_buf, sub_shape, fwd_hist>>

StochasticLut_Forward(x_buf, train) ==
    /\ comp_op.layer = "StochasticLut"
    /\ LET r == StochasticLut_ForwardBody(x_buf, train, m_bn_enable, sub_x_buf)
       IN  /\ sub_x_buf' = r.subs
           /\ returned' = r.out
           /\ sub_calls' = r.calls
    /\ fwd_hist' = Forwarded(fwd_hist, x_buf, train)
    /\ comp_op' = CompOp("StochasticLut", "Forward", <<x_buf, train>>, <<>>)
    /\ UNCHANGED <<sparseVars, seqVars, archive, T, fwd_mode, net, m_bn_enable, m_memory_saving, m_training,
                   modVars, reluVars, sub_shape>>

\* a SparseLutN or a StochasticLut of fan-in N, with the flags its commands
\* have set
NodeInit ==
    /\ comp_op \in { CompOp(c, "new", <<>>, <<>>) : c \in {"SparseLutN", "StochasticLut"} }
    /\ fanin \in 1..MaxN
    /\ m_bn_enable \in BOOLEAN /\ m_memory_saving \in BOOLEAN
    /\ (comp_op.layer = "SparseLutN" => m_bn_enable)
    /\ (comp_op.layer = "StochasticLut" => m_memory_saving)
    /\ m_training = TRUE
    /\ sub_calls = <<>> /\ returned = <<>> /\ fwd_hist = NoHistory /\ archive = NoArchive /\ fwd_mode = NoForward /\ net = NoNet /\ T = "fp32"
    /\ m_training_create = DefaultCreate /\ m_inference_create = DefaultCreate
    /\ m_real2bin = DefaultCreate /\ m_bin2real = [modulation_size |-> 1]
    /\ m_binary_mode = FALSE /\ m_host_only = FALSE
    /\ m_x_buf = EmptyBuffer /\ m_y_buf = EmptyBuffer
    /\ sub_x_buf = NoSubBuffers /\ sub_shape = <<>>
    /\ input_shape = <<>> /\ output_shape = <<>> /\ argv = <<>>
    /\ seed = 0 /\ status = "idle" /\ table = <<>> /\ setCalls = 0
    /\ gauss = NoGauss /\ prevRun = NoRun
    /\ m_layers = <<>> /\ seq_calls = <<>> /\ seq_result = <<>> /\ seq_op = <<>>

\* the buffers of one frame and one node
OneFrameBuffers == { b \in FrameBuffers : b.frames = 1 /\ b.shape = <<1>> /\ b.type = "fp32" }

NodeNext ==
    \/ \E node \in 0..1, x_vec \in NodeVectors : StochasticLut_ForwardNode(node, x_vec)
    \/ \E node \in 0..1, x_vec \in NodeVectors : SparseLutN_ForwardNode(node, x_vec)
    \/ \E x_buf \in OneFrameBuffers, train \in BOOLEAN : StochasticLut_Forward(x_buf, train)
    \/ \E x_buf \in OneFrameBuffers, train \in BOOLEAN : SparseLutN_Forward(x_buf, train)

SpecNode == NodeInit /\ [][NodeNext]_vars

\* the sub-layers a call sequence runs `op` on, in order
SubsOf(calls, op) ==
    LET sel == SelectSeq(calls, LAMBDA call : call.op = op)
    IN  [k \in 1..Len(sel) |-> sel[k].layer]

\* the sub-layers the bulk Forward runs in the current state
BulkForwardSubs ==
    IF comp_op.layer = "SparseLutN"
    THEN SubsOf(SparseLutN_ForwardBody(EmptyBuffer, TRUE, m_memory_saving, sub_x_buf).calls,
                "Forward")
    ELSE SubsOf(StochasticLut_ForwardBody(EmptyBuffer, TRUE, m_bn_enable, sub_x_buf).calls,
                "Forward")

\* C27: a ForwardNode(node, x_vec) of SparseLutN or StochasticLut fails an
\* assertion and calls no sub-layer when x_vec has not the fan-in's length;
\* otherwise it calls ForwardNode of the sub-layers the bulk Forward runs in
\* this state, in the same order (LUT, batch normalisation, activation;
\* for StochasticLut LUT and, only if enabled, batch normalisation), each for
\* the same node, the first on x_vec and each next on the vector the one
\* before returned, and returns what the last returned.
C27_ForwardNodeFollowsForward ==
    comp_op.op = "ForwardNode"
    => LET node  == comp_op.args[1]
           x_vec == comp_op.args[2]
       IN  IF Len(x_vec) # fanin
           THEN returned.status = "assert" /\ sub_calls = <<>>
           ELSE /\ returned.status = "ok"
                /\ SubsOf(sub_calls, "ForwardNode") = BulkForwardSubs
                /\ Len(sub_calls) = Len(BulkForwardSubs)
                /\ BulkForwardSubs =
                     IF comp_op.layer = "SparseLutN"
                     THEN <<"m_lut", "m_batch_norm", "m_activation">>
                     ELSE IF m_bn_enable THEN <<"m_lut", "m_batch_norm">>
                     ELSE <<"m_lut">>
                /\ \A k \in 1..Len(sub_calls) :
                      /\ sub_calls[k].arg[1] = node
                      /\ sub_calls[k].arg[2] = IF k = 1 THEN x_vec
                                               ELSE sub_calls[k - 1].ret
                /\ returned.vec = sub_calls[Len(sub_calls)].ret

\* a StochasticLut with the batch normalisation disabled evaluated one node
C27_Witness ==
    /\ comp_op.layer = "StochasticLut" /\ comp_op.op = "ForwardNode"
    /\ ~m_bn_enable /\ fanin = MaxN
    /\ returned.status = "ok" /\ Len(sub_calls) = 1
    /\ Len(comp_op.args[2]) = MaxN

-----------------------------------------------------------------------------
(* Properties of the pointwise and depthwise tables *)

\* the index vector (x, y, c) of an output node, and of the i-th input
\* connected to it
OutputAt(o)   == GetShapeIndices(o, output_shape)
InputAt(o, i) == GetShapeIndices(table[o][i], input_shape)

\* C28: in a table built by pointwise, every input of the output node
\* (x, y, c) is an input node at (x, y), of a channel in 0 .. input_shape[2]-1.
C28_PointwiseSamePosition ==
    (status = "done" /\ SelectStrategy(argv) = "pointwise")
    => \A o \in Nodes(output_shape), i \in 1..fanin :
          /\ table[o][i] \in Nodes(input_shape)
          /\ InputAt(o, i)[1] = OutputAt(o)[1]
          /\ InputAt(o, i)[2] = OutputAt(o)[2]
          /\ InputAt(o, i)[3] \in 0..(input_shape[3] - 1)

\* pointwise from 2 x 2 x 2 to a shape of the same width and height, fan-in 2
C28_Witness ==
    /\ status = "done" /\ argv = <<"pointwise">>
    /\ input_shape = <<2, 2, 2>> /\ output_shape[1] = 2 /\ output_shape[2] = 2
    /\ fanin = 2 /\ setCalls = 2 * GetShapeSize(output_shape)

\* C29: depthwise on shapes of equal channel count never fails a range
\* assertion, and in the table it builds every input of the output node
\* (x, y, c) is an input node of channel c at (p mod W, p div W) for a
\* position p in 0 .. W * H - 1, W and H the input's width and height.
C29_DepthwiseSameChannel ==
    (status # "init" /\ SelectStrategy(argv) = "depthwise"
     /\ DepthwiseGuard(input_shape, output_shape))
    => /\ status \in {"done", "exhausted"}
       /\ status = "done"
            => \A o \in Nodes(output_shape), i \in 1..fanin :
                  /\ table[o][i] \in Nodes(input_shape)
                  /\ InputAt(o, i)[3] = OutputAt(o)[3]
                  /\ \E p \in 0..(input_shape[1] * input_shape[2] - 1) :
                        /\ InputAt(o, i)[1] = p % input_shape[1]
                        /\ InputAt(o, i)[2] = p \div input_shape[1]

\* depthwise from a 2 x 1 x 2 input with fan-in 2
C29_Witness ==
    /\ status = "done" /\ argv = <<"depthwise">>
    /\ input_shape = <<2, 1, 2>> /\ output_shape[3] = 2
    /\ fanin = 2 /\ \E o \in Nodes(output_shape) : table[o][1] > 1

-----------------------------------------------------------------------------
(* ReLU<T> on the values of the buffers *)

\* A 32-bit word of memory is written as the integer its bits denote in two's
\* complement.  An element of an fp32 buffer is one word, an element of an
\* fp64 buffer two words, the low one first.  The row of a node holds its
\* frames one after the other; the words of the stride behind the last frame
\* hold no element and are left out.

MaxFrame == 2
MaxNode  == 2

\* sizeof(T) in words
WordsOf(type) == IF type = "fp64" THEN 2 ELSE 1

\* 0.0, 1.0, -1.0, a quiet NaN and 1.0 + 2^-23 as float
Fp32Values == << <<0>>, <<1065353216>>, <<-1082130432>>, <<2143289344>>, <<1065353217>> >>

\* 0.0, 1.0, -1.0, -0.3 and 1.0 + 2^-21 + 2^-52 as double
Fp64Values == << <<0, 0>>, <<0, 1072693248>>, <<0, -1074790400>>,
                 <<858993459, -1076677837>>, <<-2147483647, 1072693248>> >>

ValuesOf(type) == IF type = "fp64" THEN Fp64Values ELSE Fp32Values

\* the buffer without storage, with the fields of a buffer that has values
NoValues == [type |-> "none", frames |-> 0, shape |-> <<>>, id |-> 0, data |-> <<>>]

\* FrameBuffer(type, frame_size, shape) with the words `data`: node -> row
ValueBuffer(type, frames, shape, data) ==
    [type |-> type, frames |-> frames, shape |-> shape, id |-> 0, data |-> data]

\* the test buffers: the element of frame f and node n is the value number
\* start + n + f * step, counted round the values of the type
Ramp(type, frames, nodes, start, step) ==
    LET vals == ValuesOf(type)
        w    == WordsOf(type)
        Elem(n, f) == vals[((start + n + f * step) % Len(vals)) + 1]
        Row(n) == [i \in 1..(frames * w) |-> Elem(n, (i - 1) \div w)[((i - 1) % w) + 1]]
    IN  ValueBuffer(type, frames, <<nodes>>, [n \in 1..nodes |-> Row(n - 1)])

ValueBuffers ==
    { Ramp(type, frames, nodes, start, step) :
        type \in {"fp32", "fp64"}, frames \in 1..MaxFrame, nodes \in 1..MaxNode,
        start \in 0..4, step \in 0..1 }

\* ptr.Get(frame, node) of a pointer locked as a type of `w` words
Get(buf, w, frame, node) ==
    [k \in 1..w |-> buf.data[node + 1][frame * w + k]]

\* an element compared with zero: sig > (T)0.0.  No NaN is greater than zero.
IsPositive(e) ==
    IF Len(e) = 1
    THEN e[1] > 0 /\ e[1] <= 2139095040
    ELSE /\ e[2] >= 0
         /\ ~(e[2] = 0 /\ e[1] = 0)
         /\ (e[2] < 2146435072 \/ (e[2] = 2146435072 /\ e[1] = 0))

Zero(e) == [k \in 1..Len(e) |-> 0]

\* sig > (T)0.0 ? sig : (T)0.0
ScalarReLU(e) == IF IsPositive(e) THEN e ELSE Zero(e)

\* one lane of _mm256_max_ps(in_sig, zero): the second operand unless the
\* first one is greater
mm256_max_ps(word) == IF IsPositive(<<word>>) THEN word ELSE 0

\* one lane of _mm256_and_ps(dy, _mm256_cmp_ps(y, zero, _CMP_GT_OS))
mm256_and_gt(y, dy) == IF IsPositive(<<y>>) THEN dy ELSE 0

\* ((frame_size + 7) / 8) * 8
m256_frame_size(frame_size) == ((frame_size + 7) \div 8) * 8

\* a float with a zero exponent field, shifted until its leading bit is set
RECURSIVE Normalise(_, _)
Normalise(m, e) ==
    IF m >= 8388608 THEN <<m - 8388608, e>> ELSE Normalise(2 * m, e - 1)

\* the conversion of a float to double
Widen(word) ==
    LET neg  == word < 0
        mag  == IF neg THEN (word + 2147483647) + 1 ELSE word
        e    == mag \div 8388608
        m    == mag % 8388608
        norm == IF e = 0 /\ m # 0 THEN Normalise(m, 1) ELSE <<m, e>>
        frac == norm[1]
        hi   == IF e = 0 /\ m = 0 THEN 0
                ELSE IF e = 255 THEN 2146435072 + frac \div 8
                ELSE (norm[2] + 896) * 1048576 + frac \div 8
        low3 == frac % 8
        lo   == IF low3 >= 4 THEN (low3 - 8) * 536870912 ELSE low3 * 536870912
    IN  <<lo, IF neg THEN (hi - 2147483647) - 1 ELSE hi>>

\* the value of an element as a double
ToDouble(e) == IF Len(e) = 1 THEN Widen(e[1]) ELSE e

\* ReLU::ForwardNode outside binary mode, on a vector of doubles
ReLU_ForwardNodeBody(node, x_vec) ==
    [i \in 1..Len(x_vec) |-> ScalarReLU(x_vec[i])]

\* the AVX loop of Forward over the row of one node, the row taken as floats:
\* words behind m256_frame_size are not written and keep what the new buffer
\* held
ForwardRow(x_row, frame_size, junk) ==
    [i \in 1..Len(x_row) |->
        IF i <= m256_frame_size(frame_size) THEN mm256_max_ps(x_row[i]) ELSE junk]

\* ReLU::Forward outside binary mode on the host.  The AVX block runs for
\* every T and locks both buffers as float; a lock that compares the types
\* stops the program, one that does not hands out the words as they are.
\* m_y_buf shares the storage of the buffer returned.
ReLU_ForwardHost(x_buf, train, dtype, mx, my, junk) ==
    IF x_buf.type # dtype
    THEN { [x_buf |-> mx, y_buf |-> my, out |-> Outcome("assert", NoValues, 0)] }
    ELSE LET y_buf == ValueBuffer(x_buf.type, x_buf.frames, x_buf.shape,
                          [n \in 1..Len(x_buf.data) |->
                              ForwardRow(x_buf.data[n], x_buf.frames, junk)])
             done  == [x_buf |-> IF train THEN x_buf ELSE mx,
                       y_buf |-> IF train THEN y_buf ELSE my,
                       out   |-> Outcome("ok", y_buf, 0)]
             stop  == [x_buf |-> mx, y_buf |-> my, out |-> Outcome("assert", NoValues, 0)]
         IN  IF dtype = "fp32" THEN { done } ELSE { done, stop }

\* the loops of Backward read y_buf and dy_buf at every node and frame of dx_buf
SameExtent(y_buf, dx_buf) ==
    /\ y_buf.type = dx_buf.type
    /\ y_buf.frames = dx_buf.frames
    /\ y_buf.shape = dx_buf.shape

\* ReLU::Backward outside binary mode on the host: the AVX loop for float, the
\* scalar loop for every other T.  A saved output of another extent than
\* dy_buf is read out of bounds.
ReLU_BackwardHost(dy_buf, dtype, mx, my, junk) ==
    IF dy_buf.type # dtype
    THEN { [x_buf |-> mx, y_buf |-> my, out |-> Outcome("assert", NoValues, 0)] }
    ELSE IF ~SameExtent(my, dy_buf)
    THEN { [x_buf |-> NoValues, y_buf |-> NoValues, out |-> o] :
             o \in { Outcome("crash", NoValues, 0),
                     Outcome("ok", ValueBuffer(dy_buf.type, dy_buf.frames, dy_buf.shape,
                                       [n \in 1..Len(dy_buf.data) |->
                                           [i \in 1..Len(dy_buf.data[n]) |-> junk]]), 0) } }
    ELSE LET w == WordsOf(dtype)
             avx(n) == [i \in 1..Len(dy_buf.data[n]) |->
                          IF i <= m256_frame_size(dy_buf.frames)
                          THEN mm256_and_gt(my.data[n][i], dy_buf.data[n][i]) ELSE junk]
             generic(n) == [i \in 1..Len(dy_buf.data[n]) |->
                              LET f == (i - 1) \div w
                              IN  IF IsPositive(Get(my, w, f, n - 1))
                                  THEN dy_buf.data[n][i] ELSE 0]
             dx_buf == ValueBuffer(dy_buf.type, dy_buf.frames, dy_buf.shape,
                          [n \in 1..Len(dy_buf.data) |->
                              IF dtype = "fp32" THEN avx(n) ELSE generic(n)])
         IN  { [x_buf |-> NoValues, y_buf |-> NoValues, out |-> Outcome("ok", dx_buf, 0)] }

\* the words an unwritten element may hold
JunkWords == {0, 1065353216}

ReLU_ForwardValues(x_buf, train) ==
    /\ ~m_binary_mode
    /\ \E junk \in JunkWords :
         \E r \in ReLU_ForwardHost(x_buf, train, T, m_x_buf, m_y_buf, junk) :
           /\ m_x_buf' = r.x_buf
           /\ m_y_buf' = r.y_buf
           /\ returned' = r.out
    /\ comp_op' = CompOp("ReLU", "Forward", <<x_buf, train>>, <<>>)
    /\ UNCHANGED <<sparseVars, seqVars, archive, T, fwd_mode, net, m_bn_enable, m_memory_saving, m_training,
                   modVars, m_binary_mode, m_host_only, sub_x_buf, sub_shape, sub_calls,
                   fwd_hist>>

\* Backward with a gradient that has the extent of the saved output
ReLU_BackwardValues(dy_buf) ==
    /\ ~m_binary_mode
    /\ SameExtent(m_y_buf, dy_buf)
    /\ \E junk \in JunkWords :
         \E r \in ReLU_BackwardHost(dy_buf, T, m_x_buf, m_y_buf, junk) :
           /\ m_x_buf' = r.x_buf
           /\ m_y_buf' = r.y_buf
           /\ returned' = r.out
    /\ comp_op' = CompOp("ReLU", "Backward", <<dy_buf, FALSE>>, <<>>)
    /\ UNCHANGED <<sparseVars, seqVars, archive, T, fwd_mode, net, m_bn_enable, m_memory_saving, m_training,
                   modVars, m_binary_mode, m_host_only, sub_x_buf, sub_shape, sub_calls,
                   fwd_hist>>

\* a std::vector<double> as a buffer of one node
VectorBuffer(vec) ==
    ValueBuffer("fp64", Len(vec), <<1>>,
                << [i \in 1..(2 * Len(vec)) |-> vec[((i - 1) \div 2) + 1][((i - 1) % 2) + 1]] >>)

\* ForwardNode does not use `node` outside binary mode
ReLU_ForwardNode(node, x_buf) ==
    /\ ~m_binary_mode
    /\ LET x_vec == [f \in 1..x_buf.frames |-> ToDouble(Get(x_buf, WordsOf(x_buf.type), f - 1, node))]
       IN  returned' = Outcome("ok", VectorBuffer(ReLU_ForwardNodeBody(node, x_vec)), 0)
    /\ comp_op' = CompOp("ReLU", "ForwardNode", <<x_buf, FALSE>>, <<>>)
    /\ UNCHANGED <<sparseVars, seqVars, archive, T, fwd_mode, net, m_bn_enable, m_memory_saving, m_training,
                   modVars, reluVars, sub_x_buf, sub_shape, sub_calls, fwd_hist>>

ReLUInit ==
    /\ comp_op = CompOp("ReLU", "new", <<NoValues, FALSE>>, <<>>)
    /\ T \in {"fp32", "fp64"}
    /\ m_binary_mode = FALSE /\ m_host_only = FALSE
    /\ m_x_buf = NoValues /\ m_y_buf = NoValues
    /\ returned = Outcome("ok", NoValues, 0)
    /\ m_bn_enable = TRUE /\ m_memory_saving = TRUE /\ m_training = TRUE
    /\ sub_x_buf = NoSubBuffers /\ sub_shape = <<>> /\ sub_calls = <<>>
    /\ fwd_hist = NoHistory /\ archive = NoArchive /\ fwd_mode = NoForward /\ net = NoNet
    /\ m_training_create = DefaultCreate /\ m_inference_create = DefaultCreate
    /\ m_real2bin = DefaultCreate /\ m_bin2real = [modulation_size |-> 1]
    /\ input_shape = <<>> /\ output_shape = <<>> /\ fanin = 0 /\ argv = <<>>
    /\ seed = 0 /\ status = "idle" /\ table = <<>> /\ setCalls = 0
    /\ gauss = NoGauss /\ prevRun = NoRun
    /\ m_layers = <<>> /\ seq_calls = <<>> /\ seq_result = <<>> /\ seq_op = <<>>

\* the test buffers of the element type of the layer
BuffersOfT == { b \in ValueBuffers : b.type = T }

ReLUNext ==
    \/ \E x_buf \in BuffersOfT, train \in BOOLEAN : ReLU_ForwardValues(x_buf, train)
    \/ \E dy_buf \in BuffersOfT : ReLU_BackwardValues(dy_buf)
    \/ \E x_buf \in BuffersOfT : ReLU_ForwardNode(0, x_buf)

SpecReLU == ReLUInit /\ [][ReLUNext]_vars

\* every element of the buffer y is the scalar ReLU of the element of x, and
\* its value is what ForwardNode makes of the value of that element
IsReLUOf(y, x, w) ==
    /\ SameExtent(y, x)
    /\ \A n \in 0..(x.shape[1] - 1), f \in 0..(x.frames - 1) :
          /\ Get(y, w, f, n) = ScalarReLU(Get(x, w, f, n))
          /\ ToDouble(Get(y, w, f, n))
               = ReLU_ForwardNodeBody(n, <<ToDouble(Get(x, w, f, n))>>)[1]

\* every element of dx is the element of dy where the element of y is
\* greater than zero, and zero elsewhere
IsMaskedBy(dx, dy, y, w) ==
    /\ SameExtent(dx, dy)
    /\ \A n \in 0..(dy.shape[1] - 1), f \in 0..(dy.frames - 1) :
          Get(dx, w, f, n) = IF IsPositive(Get(y, w, f, n))
                             THEN Get(dy, w, f, n) ELSE Zero(Get(dy, w, f, n))

\* C30: outside binary mode a Forward of a buffer of type T returns a buffer
\* that holds max(x, 0) at every frame and node, as the scalar loop and as
\* ForwardNode compute it; a Backward returns dy where the saved output is
\* greater than zero and zero elsewhere.
C30_ReLUValues ==
    [][ /\ (comp_op'.op = "Forward" /\ comp_op'.args[1].type = T)
           => /\ returned'.status = "ok"
              /\ IsReLUOf(returned'.buf, comp_op'.args[1], WordsOf(T))
        /\ (comp_op'.op = "Backward" /\ comp_op'.args[1].type = T)
           => /\ returned'.status = "ok"
              /\ IsMaskedBy(returned'.buf, comp_op'.args[1], m_y_buf, WordsOf(T)) ]_vars

-----------------------------------------------------------------------------
(* The cache of ReLU *)

\* C31: outside binary mode a Forward that returns saves its input and its
\* output when train is true and leaves both saved buffers as they were when
\* train is false; a Backward that returns leaves both empty, and one that
\* used a saved output found it there.
C31_ReLUCacheLifecycle ==
    [][ (comp_op'.layer = "ReLU" /\ ~m_binary_mode /\ returned'.status = "ok")
        => /\ comp_op'.op = "Forward"
                => IF comp_op'.args[2]
                   THEN m_x_buf' = comp_op'.args[1] /\ m_y_buf' = returned'.buf
                   ELSE m_x_buf' = m_x_buf /\ m_y_buf' = m_y_buf
           /\ comp_op'.op = "Backward"
                => /\ m_x_buf' = EmptyBuffer /\ m_y_buf' = EmptyBuffer
                   /\ returned'.used # 0 => m_y_buf # EmptyBuffer ]_vars

\* a Forward with train = false has left the input of an earlier training
\* Forward in place
C31_Witness ==
    /\ comp_op.layer = "ReLU" /\ comp_op.op = "Forward" /\ ~m_binary_mode
    /\ returned.status = "ok" /\ ~comp_op.args[2]
    /\ m_x_buf # EmptyBuffer /\ m_x_buf # comp_op.args[1]

-----------------------------------------------------------------------------
(* Commands between Forward and Backward *)

ReLU_Command(args, send_to) ==
    /\ comp_op.layer = "ReLU"
    /\ ReLU_SendCommand(args, send_to)

SparseLutN_Command(args, send_to) ==
    /\ comp_op.layer = "SparseLutN"
    /\ SparseLutN_SendCommand(args, send_to)

\* the commands that set a mode of ReLU or SparseLutN, and one that sets none
ModeCommands == { <<"binary", "true">>, <<"binary", "false">>,
                  <<"memory_saving", "true">>, <<"memory_saving", "false">>,
                  <<"host_only", "true">> }

SwitchNext ==
    \/ \E x_buf \in OneFrameBuffers, train \in BOOLEAN : ReLU_Forward(x_buf, train)
    \/ \E dy_buf \in OneFrameBuffers : ReLU_Backward(dy_buf)
    \/ \E x_buf \in OneFrameBuffers, train \in BOOLEAN : SparseLutN_Forward(x_buf, train)
    \/ \E dy_buf \in OneFrameBuffers : SparseLutN_Backward(dy_buf)
    \/ \E args \in ModeCommands, send_to \in Targets : ReLU_Command(args, send_to)
    \/ \E args \in ModeCommands, send_to \in Targets : SparseLutN_Command(args, send_to)

SpecSwitch == CacheInit /\ [][SwitchNext]_vars

\* C32: a Backward of ReLU that follows a training Forward runs in the mode,
\* binary or not, in which that Forward ran.
C32_BackwardVariantOfForward ==
    [][(comp_op'.layer = "ReLU" /\ comp_op'.op = "Backward" /\ fwd_mode.train)
          => m_binary_mode = fwd_mode.mode]_vars

\* the sub-layer Backward calls of a record of calls
BackwardsOf(calls) ==
    { k \in 1..Len(calls) : calls[k].op = "Backward" }

\* C33: a Backward of SparseLutN that follows a training Forward calls the
\* Backward of all three sub-layers, each one holding a saved input when it
\* is called.
C33_SubLayersHaveInput ==
    [][(comp_op'.layer = "SparseLutN" /\ comp_op'.op = "Backward" /\ fwd_mode.train)
          => /\ Cardinality(BackwardsOf(sub_calls')) = 3
             /\ \A k \in BackwardsOf(sub_calls') : sub_calls'[k].cfg # EmptyBuffer]_vars

-----------------------------------------------------------------------------
(* Create of SparseLutN and StochasticLut *)

\* create_t() of SparseLutN: the default member initialisers
SparseLutN_create_t == [output_shape |-> <<>>, connection |-> "", seed |-> 1]

\* SparseLutN::SparseLutN(create_t const &): the create_t of the inner LUT
SparseLutN_Constructor(create) ==
    [output_shape |-> create.output_shape,
     connection   |-> create.connection,
     seed         |-> create.seed]

\* SparseLutN::Create(create_t const &)
SparseLutN_CreateBody(create) == SparseLutN_Constructor(create)

\* SparseLutN::Create(indices_t output_shape, std::string connection, std::uint64_t seed)
SparseLutN_CreateShapeBody(shape, connection, sd) ==
    SparseLutN_CreateBody([SparseLutN_create_t EXCEPT !.output_shape = shape,
                                                      !.connection = connection])

\* SparseLutN::Create(index_t output_node_size, std::string connection, std::uint64_t seed)
SparseLutN_CreateSizeBody(output_node_size, connection, sd) ==
    SparseLutN_CreateShapeBody(<<output_node_size>>, connection, sd)

\* the arguments of a Create call, those of the other overloads left empty
CreateArgs(shape, size, connection, sd, bn_enable, gamma) ==
    [output_shape |-> shape, output_node_size |-> size, connection |-> connection,
     seed |-> sd, bn_enable |-> bn_enable, gamma |-> gamma]

\* a SparseLutN is created: the sub-layers are created, the members take their
\* default initialisers
SparseLutN_Created(op, args, lut_create) ==
    /\ m_memory_saving' = TRUE
    /\ sub_x_buf' = NoSubBuffers
    /\ sub_calls' = << SubCall("m_lut", "Create", <<>>, FALSE, <<>>, lut_create),
                       SubCall("m_batch_norm", "Create", <<>>, FALSE, <<>>, <<>>),
                       SubCall("m_activation", "Create", <<>>, FALSE, <<>>, <<>>) >>
    /\ returned' = Outcome("ok", EmptyBuffer, 0)
    /\ fwd_hist' = NoHistory /\ fwd_mode' = NoForward
    /\ comp_op' = CompOp("SparseLutN", op, <<args>>, <<>>)
    /\ UNCHANGED <<sparseVars, seqVars, archive, T, net, m_bn_enable, m_training,
                   modVars, reluVars, sub_shape>>

SparseLutN_Create(create) ==
    SparseLutN_Created("Create(create_t)",
                       CreateArgs(create.output_shape, 0, create.connection, create.seed,
                                  TRUE, 0),
                       SparseLutN_CreateBody(create))

SparseLutN_CreateShape(shape, connection, sd) ==
    SparseLutN_Created("Create(indices_t)",
                       CreateArgs(shape, 0, connection, sd, TRUE, 0),
                       SparseLutN_CreateShapeBody(shape, connection, sd))

SparseLutN_CreateSize(output_node_size, connection, sd) ==
    SparseLutN_Created("Create(index_t)",
                       CreateArgs(<<>>, output_node_size, connection, sd, TRUE, 0),
                       SparseLutN_CreateSizeBody(output_node_size, connection, sd))

\* create_t() of StochasticLut; the real members in thousandths
StochasticLut_create_t ==
    [output_shape |-> <<>>, bn_enable |-> TRUE, momentum |-> 1, gamma |-> 200,
     beta |-> 500, fix_gamma |-> TRUE, fix_beta |-> TRUE]

\* StochasticLut::Create(create_t const &) for the template parameter N: the
\* members of the new object and what its sub-layers are created with.
\* create.bn_enable is not read; m_bn_enable keeps its default initialiser.
StochasticLut_CreateBody(create, N) ==
    IF N \notin {2, 4, 6}
    THEN [status |-> "assert", bn_enable |-> TRUE, lut |-> <<>>, bn |-> <<>>]
    ELSE [status    |-> "ok",
          bn_enable |-> TRUE,
          lut       |-> [output_shape |-> create.output_shape],
          bn        |-> [momentum |-> create.momentum, gamma |-> create.gamma,
                         beta |-> create.beta, fix_gamma |-> create.fix_gamma,
                         fix_beta |-> create.fix_beta]]

\* StochasticLut::Create(indices_t output_shape, bool bn_enable, T momentum, T gamma, T beta)
StochasticLut_CreateShapeBody(shape, bn_enable, momentum, gamma, beta, N) ==
    StochasticLut_CreateBody([StochasticLut_create_t EXCEPT
                                 !.output_shape = shape, !.bn_enable = bn_enable,
                                 !.momentum = momentum, !.gamma = gamma, !.beta = beta], N)

\* StochasticLut::Create(index_t output_node_size, bool bn_enable, T momentum, T gamma, T beta)
StochasticLut_CreateSizeBody(output_node_size, bn_enable, momentum, gamma, beta, N) ==
    StochasticLut_CreateBody([StochasticLut_create_t EXCEPT
                                 !.output_shape = <<output_node_size>>,
                                 !.bn_enable = bn_enable,
                                 !.momentum = momentum, !.gamma = gamma, !.beta = beta], N)

StochasticLut_Created(op, args, r) ==
    /\ m_bn_enable' = IF r.status = "ok" THEN r.bn_enable ELSE m_bn_enable
    /\ sub_x_buf' = IF r.status = "ok" THEN NoSubBuffers ELSE sub_x_buf
    /\ sub_calls' = IF r.status = "ok"
                    THEN << SubCall("m_lut", "Create", <<>>, FALSE, <<>>, r.lut),
                            SubCall("m_batch_norm", "Create", <<>>, FALSE, <<>>, r.bn) >>
                    ELSE <<>>
    /\ returned' = Outcome(r.status, EmptyBuffer, 0)
    /\ fwd_hist' = NoHistory /\ fwd_mode' = NoForward
    /\ comp_op' = CompOp("StochasticLut", op, <<args>>, <<>>)
    /\ UNCHANGED <<sparseVars, seqVars, archive, T, net, m_memory_saving, m_training,
                   modVars, reluVars, sub_shape>>

StochasticLut_Create(create) ==
    StochasticLut_Created("Create(create_t)",
                          CreateArgs(create.output_shape, 0, "", 0, create.bn_enable,
                                     create.gamma),
                          StochasticLut_CreateBody(create, fanin))

StochasticLut_CreateShape(shape, bn_enable, gamma) ==
    StochasticLut_Created("Create(indices_t)",
                          CreateArgs(shape, 0, "", 0, bn_enable, gamma),
                          StochasticLut_CreateShapeBody(shape, bn_enable, 1, gamma, 500, fanin))

StochasticLut_CreateSize(output_node_size, bn_enable, gamma) ==
    StochasticLut_Created("Create(index_t)",
                          CreateArgs(<<>>, output_node_size, "", 0, bn_enable, gamma),
                          StochasticLut_CreateSizeBody(output_node_size, bn_enable, 1, gamma,
                                                       500, fanin))

\* StochasticLut::Backward over the saved inputs c of its sub-layers, the
\* first refusal ending the call
StochasticLut_BackwardBody(dy_buf, bn_enable, c) ==
    LET b  == Layer_Backward("m_batch_norm", c.m_batch_norm, dy_buf)
        cb == SubCall("m_batch_norm", "Backward", dy_buf, FALSE, b.out, c.m_batch_norm)
        dy == IF bn_enable THEN b.out.buf ELSE dy_buf
        l  == Layer_Backward("m_lut", c.m_lut, dy)
        cl == SubCall("m_lut", "Backward", dy, FALSE, l.out, c.m_lut)
    IN  IF bn_enable /\ b.out.status # "ok"
        THEN [subs |-> c, out |-> b.out, calls |-> <<cb>>]
        ELSE [subs  |-> [c EXCEPT !.m_lut = l.cache,
                                  !.m_batch_norm = IF bn_enable THEN b.cache ELSE @],
              out   |-> l.out,
              calls |-> (IF bn_enable THEN <<cb>> ELSE <<>>) \o <<cl>>]

StochasticLut_Backward(dy_buf) ==
    /\ comp_op.layer = "StochasticLut"
    /\ LET r == StochasticLut_BackwardBody(dy_buf, m_bn_enable, sub_x_buf)
       IN  /\ sub_x_buf' = r.subs
           /\ returned' = r.out
           /\ sub_calls' = r.calls
    /\ fwd_hist' = NoHistory
    /\ comp_op' = CompOp("StochasticLut", "Backward", <<dy_buf>>, <<>>)
    /\ UNCHANGED <<sparseVars, seqVars, archive, T, fwd_mode, net, m_bn_enable, m_memory_saving,
                   m_training, modVars, reluVars, sub_shape>>

StochasticLut_Parameters ==
    /\ comp_op.layer = "StochasticLut"
    /\ Composite_GetParameters("StochasticLut")

StochasticLut_Gradients ==
    /\ comp_op.layer = "StochasticLut"
    /\ Composite_GetGradients("StochasticLut")

StochasticLut_Command(args, send_to) ==
    /\ comp_op.layer = "StochasticLut"
    /\ StochasticLut_SendCommand(args, send_to)

\* the create_t records handed to Create
SparseLutN_Creates ==
    { [output_shape |-> shape, connection |-> connection, seed |-> sd] :
        shape \in Shapes1(MaxOut1), connection \in {"", "random", "serial"}, sd \in Seeds }

StochasticLut_Creates ==
    { [StochasticLut_create_t EXCEPT !.output_shape = shape, !.bn_enable = bn_enable,
                                     !.gamma = gamma] :
        shape \in Shapes1(MaxOut1), bn_enable \in BOOLEAN, gamma \in {200, 500} }

\* no layer created yet; N is the template parameter of the classes
CreateInit ==
    /\ comp_op = CompOp("", "new", <<>>, <<>>)
    /\ fanin \in 1..MaxN
    /\ m_bn_enable = TRUE /\ m_memory_saving = TRUE /\ m_training = TRUE
    /\ sub_calls = <<>> /\ returned = Outcome("ok", EmptyBuffer, 0)
    /\ fwd_hist = NoHistory /\ archive = NoArchive /\ fwd_mode = NoForward /\ net = NoNet /\ T = "fp32"
    /\ m_training_create = DefaultCreate /\ m_inference_create = DefaultCreate
    /\ m_real2bin = DefaultCreate /\ m_bin2real = [modulation_size |-> 1]
    /\ m_binary_mode = FALSE /\ m_host_only = FALSE
    /\ m_x_buf = EmptyBuffer /\ m_y_buf = EmptyBuffer
    /\ sub_x_buf = NoSubBuffers /\ sub_shape = <<>>
    /\ input_shape = <<>> /\ output_shape = <<>> /\ argv = <<>>
    /\ seed = 0 /\ status = "idle" /\ table = <<>> /\ setCalls = 0
    /\ gauss = NoGauss /\ prevRun = NoRun
    /\ m_layers = <<>> /\ seq_calls = <<>> /\ seq_result = <<>> /\ seq_op = <<>>

CreateNext ==
    \/ \E create \in SparseLutN_Creates : SparseLutN_Create(create)
    \/ \E shape \in Shapes1(MaxOut1), connection \in {"", "random", "serial"}, sd \in Seeds :
          SparseLutN_CreateShape(shape, connection, sd)
    \/ \E n \in 1..MaxOut1, connection \in {"", "random", "serial"}, sd \in Seeds :
          SparseLutN_CreateSize(n, connection, sd)
    \/ \E create \in StochasticLut_Creates : StochasticLut_Create(create)
    \/ \E shape \in Shapes1(MaxOut1), bn_enable \in BOOLEAN, gamma \in {200, 500} :
          StochasticLut_CreateShape(shape, bn_enable, gamma)
    \/ \E n \in 1..MaxOut1, bn_enable \in BOOLEAN, gamma \in {200, 500} :
          StochasticLut_CreateSize(n, bn_enable, gamma)
    \/ \E x_buf \in OneFrameBuffers, train \in BOOLEAN : StochasticLut_Forward(x_buf, train)
    \/ \E dy_buf \in OneFrameBuffers : StochasticLut_Backward(dy_buf)
    \/ StochasticLut_Parameters
    \/ StochasticLut_Gradients
    \/ \E args \in Commands : StochasticLut_Command(args, "all")

SpecCreate == CreateInit /\ [][CreateNext]_vars

\* the output shape a Create call asks for
RequestedShape(op, args) ==
    IF op = "Create(index_t)" THEN <<args.output_node_size>> ELSE args.output_shape

CreateStep(class) ==
    /\ comp_op'.layer = class
    /\ comp_op'.op \in {"Create(create_t)", "Create(indices_t)", "Create(index_t)"}
    /\ returned'.status = "ok"

\* C34: whichever Create of SparseLutN is called, the inner LUT is created
\* with the output shape, the connection and the seed of the call.
C34_CreateHandsOnConfiguration ==
    [][CreateStep("SparseLutN")
          => LET args == comp_op'.args[1]
             IN  sub_calls'[1].cfg = [output_shape |-> RequestedShape(comp_op'.op, args),
                                      connection   |-> args.connection,
                                      seed         |-> args.seed]]_vars

\* the sub-layers named in a record of calls or of parameters
LayersOf(calls) == { calls[k].layer : k \in 1..Len(calls) }

\* C35: a StochasticLut created with bn_enable = false has m_bn_enable false;
\* no call but a command changes m_bn_enable; and while it is false Forward
\* calls the LUT alone and returns its output, Backward calls the LUT alone,
\* and GetParameters and GetGradients hold entries of the LUT alone.
C35_CreatedWithoutBatchNorm ==
    [][ /\ (CreateStep("StochasticLut") /\ ~comp_op'.args[1].bn_enable)
            => ~m_bn_enable'
        /\ (comp_op'.layer = "StochasticLut"
            /\ comp_op'.op \in {"Forward", "Backward", "GetParameters", "GetGradients"})
            => /\ m_bn_enable' = m_bn_enable
               /\ (~m_bn_enable /\ comp_op'.op \in {"Forward", "Backward"})
                    => /\ LayersOf(sub_calls') = {"m_lut"}
                       /\ returned' = sub_calls'[1].ret
               /\ (~m_bn_enable /\ comp_op'.op \in {"GetParameters", "GetGradients"})
                    => { comp_op'.subs[k].sub : k \in 1..Len(comp_op'.subs) } = {"m_lut"} ]_vars

-----------------------------------------------------------------------------
(* The modulation sizes of BinaryModulation *)

\* C36: the expander and the reducer of a BinaryModulation have the same
\* modulation size in every state, from construction on; and a Forward whose
\* train flag is the training flag of the layer calls neither
\* SetModulationSize nor SetValueGenerator and leaves both configured as
\* they were.
C36_ModulationSizesAgree ==
    /\ [](m_real2bin.modulation_size = m_bin2real.modulation_size)
    /\ [][(comp_op'.layer = "BinaryModulation" /\ comp_op'.op = "Forward"
           /\ comp_op'.args[1] = BoolStr(m_training))
             => /\ comp_op'.subs = <<>>
                /\ m_real2bin' = m_real2bin
                /\ m_bin2real' = m_bin2real
                /\ m_training' = m_training]_vars

\* a second Forward in inference mode, the two modes differing in their
\* modulation size
C36_Witness ==
    /\ comp_op.layer = "BinaryModulation" /\ comp_op.op = "Forward"
    /\ comp_op.args = <<"false", "false">>
    /\ m_training_create.modulation_size # m_inference_create.modulation_size
    /\ m_real2bin.modulation_size = m_inference_create.modulation_size

-----------------------------------------------------------------------------
(* NeuralNet::RunCalculation *)

MaxSamples == 3      \* x.size() is in 0..MaxSamples
MaxBatch == 3        \* max_batch_size is in 0..MaxBatch
MaxNetLayers == 2    \* the net has 1..MaxNetLayers layers

\* one call RunCalculation makes: on layer 0..n-1, or on the net (layer -1)
NetCall(kind, layer, arg) == [kind |-> kind, layer |-> layer, arg |-> arg]

RECURSIVE LayerCalls(_, _, _, _)
\* kind(arg) on the layers first, first + step, ... , count calls
LayerCalls(kind, arg, first, count) ==
    IF count = 0 THEN <<>>
    ELSE <<NetCall(kind, first, arg)>> \o LayerCalls(kind, arg, first + 1, count - 1)

RECURSIVE LayerCallsDown(_, _, _, _)
\* kind(arg) on the layers first, first - 1, ... , count calls
LayerCallsDown(kind, arg, first, count) ==
    IF count = 0 THEN <<>>
    ELSE <<NetCall(kind, first, arg)>>
         \o LayerCallsDown(kind, arg, first - 1, count - 1)

\* for (layer = start_layer; layer < layer_size; ++layer) m_layers[layer]->Forward(train)
NeuralNet_ForwardCalls(train, start_layer, layer_size) ==
    IF start_layer < layer_size
    THEN LayerCalls("Forward", BoolStr(train), start_layer, layer_size - start_layer)
    ELSE <<>>

\* for (layer = m_layers.rbegin(); layer != m_layers.rend(); ++layer) (*layer)->Backward()
NeuralNet_BackwardCalls(layer_size) ==
    LayerCallsDown("Backward", "", layer_size - 1, layer_size)

\* for (layer = m_layers.begin(); layer != m_layers.end(); ++layer) (*layer)->Update()
NeuralNet_UpdateCalls(layer_size) ==
    LayerCalls("Update", "", 0, layer_size)

\* std::min(max_batch_size, x.size() - x_index)
StdMin(a, b) == IF b < a THEN b ELSE a

\* the call RunCalculation(x, y, max_batch_size, accFunc, lossFunc, train):
\* it_y = y.cbegin(), x_size = x.size(), accuracy = 0, x_index = 0
NeuralNet_RunCalculation(layers, x_size, max_batch_size, accFunc, lossFunc, train) ==
    /\ net.pc \in {"idle", "done"}
    /\ net' = [pc |-> "loop", layers |-> layers, x_size |-> x_size,
               max_batch_size |-> max_batch_size,
               accFunc |-> accFunc, lossFunc |-> lossFunc, train |-> train,
               x_index |-> 0, batch_size |-> 0, m_batch_size |-> net.m_batch_size,
               calls |-> <<>>, copied |-> [s \in 1..x_size |-> 0]]
    /\ UNCHANGED <<sparseVars, seqVars, compVars, modVars, reluVars, sub_x_buf,
                   sub_shape, sub_calls, returned, fwd_hist, archive, T, fwd_mode>>

\* x_index < x_size: the batch size is clipped and SetBatchSize(batch_size) called
RunCalculation_SetBatchSize ==
    /\ net.pc = "loop" /\ net.x_index < net.x_size
    /\ LET batch_size == StdMin(net.max_batch_size, net.x_size - net.x_index)
       IN net' = [net EXCEPT !.pc = "copy",
                             !.batch_size = batch_size,
                             !.m_batch_size = batch_size,
                             !.calls = <<NetCall("SetBatchSize", -1, ToString(batch_size))>>]
    /\ UNCHANGED <<sparseVars, seqVars, compVars, modVars, reluVars, sub_x_buf,
                   sub_shape, sub_calls, returned, fwd_hist, archive, T, fwd_mode>>

\* in_sig_buf.Set<T>(frame, node, x[x_index + frame][node]) for every frame of
\* the batch; sample s of the model is x[s - 1]
RunCalculation_CopyInput ==
    /\ net.pc = "copy"
    /\ net' = [net EXCEPT !.pc = "Forward",
                          !.calls = @ \o <<NetCall("copy", -1, ToString(net.x_index))>>,
                          !.copied = [s \in 1..net.x_size |->
                                         IF /\ s - 1 >= net.x_index
                                            /\ s - 1 < net.x_index + net.batch_size
                                         THEN @[s] + 1 ELSE @[s]]]
    /\ UNCHANGED <<sparseVars, seqVars, compVars, modVars, reluVars, sub_x_buf,
                   sub_shape, sub_calls, returned, fwd_hist, archive, T, fwd_mode>>

\* Forward(train)
RunCalculation_Forward ==
    /\ net.pc = "Forward"
    /\ net' = [net EXCEPT !.pc = "loss",
                          !.calls = @ \o NeuralNet_ForwardCalls(net.train, 0, net.layers)]
    /\ UNCHANGED <<sparseVars, seqVars, compVars, modVars, reluVars, sub_x_buf,
                   sub_shape, sub_calls, returned, fwd_hist, archive, T, fwd_mode>>

\* if (lossFunc != nullptr) lossFunc->CalculateLoss(out_sig_buf, out_err_buf, it_y)
RunCalculation_Loss ==
    /\ net.pc = "loss"
    /\ net' = [net EXCEPT !.pc = "accuracy",
                          !.calls = IF net.lossFunc
                                    THEN @ \o <<NetCall("CalculateLoss", -1, "")>>
                                    ELSE @]
    /\ UNCHANGED <<sparseVars, seqVars, compVars, modVars, reluVars, sub_x_buf,
                   sub_shape, sub_calls, returned, fwd_hist, archive, T, fwd_mode>>

\* if (accFunc != nullptr) accuracy += accFunc->CalculateAccuracy(out_sig_buf, it_y)
RunCalculation_Accuracy ==
    /\ net.pc = "accuracy"
    /\ net' = [net EXCEPT !.pc = "train",
                          !.calls = IF net.accFunc
                                    THEN @ \o <<NetCall("CalculateAccuracy", -1, "")>>
                                    ELSE @]
    /\ UNCHANGED <<sparseVars, seqVars, compVars, modVars, reluVars, sub_x_buf,
                   sub_shape, sub_calls, returned, fwd_hist, archive, T, fwd_mode>>

\* if (train) { Backward(); Update(); }
RunCalculation_Train ==
    /\ net.pc = "train"
    /\ net' = [net EXCEPT !.pc = "advance",
                          !.calls = IF net.train
                                    THEN @ \o NeuralNet_BackwardCalls(net.layers)
                                           \o NeuralNet_UpdateCalls(net.layers)
                                    ELSE @]
    /\ UNCHANGED <<sparseVars, seqVars, compVars, modVars, reluVars, sub_x_buf,
                   sub_shape, sub_calls, returned, fwd_hist, archive, T, fwd_mode>>

\* it_y += batch_size; x_index += max_batch_size
RunCalculation_Advance ==
    /\ net.pc = "advance"
    /\ net' = [net EXCEPT !.pc = "loop",
                          !.x_index = @ + net.max_batch_size]
    /\ UNCHANGED <<sparseVars, seqVars, compVars, modVars, reluVars, sub_x_buf,
                   sub_shape, sub_calls, returned, fwd_hist, archive, T, fwd_mode>>

\* x_index >= x_size: return accuracy / x_size
RunCalculation_Return ==
    /\ net.pc = "loop" /\ ~(net.x_index < net.x_size)
    /\ net' = [net EXCEPT !.pc = "done"]
    /\ UNCHANGED <<sparseVars, seqVars, compVars, modVars, reluVars, sub_x_buf,
                   sub_shape, sub_calls, returned, fwd_hist, archive, T, fwd_mode>>

RunCalculation_Call ==
    \E layers \in 1..MaxNetLayers, x_size \in 0..MaxSamples,
       max_batch_size \in 0..MaxBatch, accFunc \in BOOLEAN, lossFunc \in BOOLEAN,
       train \in BOOLEAN :
        NeuralNet_RunCalculation(layers, x_size, max_batch_size, accFunc, lossFunc, train)

NetInit ==
    /\ net = NoNet
    /\ comp_op = CompOp("", "new", <<>>, <<>>)
    /\ fanin = 1
    /\ m_bn_enable = TRUE /\ m_memory_saving = TRUE /\ m_training = TRUE
    /\ sub_calls = <<>> /\ returned = Outcome("ok", EmptyBuffer, 0)
    /\ fwd_hist = NoHistory /\ archive = NoArchive /\ fwd_mode = NoForward /\ T = "fp32"
    /\ m_training_create = DefaultCreate /\ m_inference_create = DefaultCreate
    /\ m_real2bin = DefaultCreate /\ m_bin2real = [modulation_size |-> 1]
    /\ m_binary_mode = FALSE /\ m_host_only = FALSE
    /\ m_x_buf = EmptyBuffer /\ m_y_buf = EmptyBuffer
    /\ sub_x_buf = NoSubBuffers /\ sub_shape = <<>>
    /\ input_shape = <<>> /\ output_shape = <<>> /\ argv = <<>>
    /\ seed = 0 /\ status = "idle" /\ table = <<>> /\ setCalls = 0
    /\ gauss = NoGauss /\ prevRun = NoRun
    /\ m_layers = <<>> /\ seq_calls = <<>> /\ seq_result = <<>> /\ seq_op = <<>>

NetNext ==
    \/ RunCalculation_Call
    \/ RunCalculation_SetBatchSize
    \/ RunCalculation_CopyInput
    \/ RunCalculation_Forward
    \/ RunCalculation_Loss
    \/ RunCalculation_Accuracy
    \/ RunCalculation_Train
    \/ RunCalculation_Advance
    \/ RunCalculation_Return

SpecNet == NetInit /\ [][NetNext]_vars

\* RunCalculation is sequential code: it takes its next step whenever it has one
FairSpecNet == NetInit /\ [][NetNext]_vars /\ WF_vars(NetNext)

\* the calls of one batch in the order the claim gives them: SetBatchSize, the
\* input copy, Forward(train) on the layers first to last, the loss and the
\* accuracy where given, and under train Backward last to first, then Update
\* first to last
BatchInOrder(n, x_index, size, accFunc, lossFunc, train) ==
    <<NetCall("SetBatchSize", -1, ToString(size)), NetCall("copy", -1, ToString(x_index))>>
    \o [i \in 1..n |-> NetCall("Forward", i - 1, BoolStr(train))]
    \o (IF lossFunc THEN <<NetCall("CalculateLoss", -1, "")>> ELSE <<>>)
    \o (IF accFunc THEN <<NetCall("CalculateAccuracy", -1, "")>> ELSE <<>>)
    \o (IF train
        THEN [i \in 1..n |-> NetCall("Backward", n - i, "")]
             \o [i \in 1..n |-> NetCall("Update", i - 1, "")]
        ELSE <<>>)

\* inside a batch the calls made so far are the head of that order, and all
\* of it when the batch ends; the batch has min(max_batch_size, remaining)
\* samples, and no sample has been copied twice
RunCalculation_InOrder ==
    /\ net.pc \in {"copy", "Forward", "loss", "accuracy", "train", "advance"}
         => LET remaining == net.x_size - net.x_index
                size == IF net.max_batch_size < remaining
                        THEN net.max_batch_size ELSE remaining
                all == BatchInOrder(net.layers, net.x_index, size,
                                    net.accFunc, net.lossFunc, net.train)
            IN /\ net.batch_size = size
               /\ IsPrefixOf(net.calls, all)
               /\ net.pc = "advance" => net.calls = all
               /\ net.pc # "copy"
                    => \A s \in 1..net.x_size :
                         net.copied[s] = IF s <= net.x_index + size THEN 1 ELSE 0
    /\ ~net.train
         => \A i \in 1..Len(net.calls) : net.calls[i].kind \notin {"Backward", "Update"}
    /\ \A s \in 1..net.x_size : net.copied[s] <= 1
    /\ net.pc = "done" => \A s \in 1..net.x_size : net.copied[s] = 1

\* with a batch size of at least one, RunCalculation handles the batches in
\* order and ends having copied every sample once
RunCalculation_PositiveBatch ==
    /\ []RunCalculation_InOrder
    /\ (net.pc = "loop" /\ net.max_batch_size >= 1) ~> (net.pc = "done")

\* C37: RunCalculation handles every batch in the order SetBatchSize, input
\* copy, Forward(train) first layer to last, loss and accuracy where given,
\* and exactly under train Backward last layer to first, then Update first to
\* last; the batches have min(max_batch_size, remaining) samples and between
\* them cover every sample of x exactly once: a call of RunCalculation ends
\* with every sample copied once.
C37_BatchesInOrderCoverAll ==
    /\ []RunCalculation_InOrder
    /\ (net.pc = "loop") ~> (net.pc = "done" /\ \A s \in 1..net.x_size : net.copied[s] = 1)

\* a training run over three samples in batches of two has ended
RunCalculation_TwoBatches ==
    /\ net.pc = "done" /\ net.x_size = 3 /\ net.max_batch_size = 2 /\ net.train
    /\ net.layers = 2 /\ net.batch_size = 1 /\ Len(net.calls) = 8

====
